---- MODULE Spec2Model ----
(***************************************************************************)
(* A model of the PK3 model browser add-on: the path normaliser, the skin  *)
(* parser, the asset index, the skin resolver, the cache materialiser and  *)
(* the archive extractor.                                                  *)
(*                                                                         *)
(* Text.  A Python str is a sequence of symbols.  A symbol stands for one  *)
(* character ("/", ".", ",", " ", "\n", "*", "\\") or for a run of letters *)
(* that no operation of the program splits ("models", "reborn", "jpg").    *)
(* CaseMap gives the lower-case form of the symbols that carry upper case. *)
(*                                                                         *)
(* Paths.  A pathlib.Path is held as its as_posix() string.                *)
(***************************************************************************)
EXTENDS Integers, Sequences, FiniteSets, TLC

VARIABLES
    os_name,          \* "posix" or "nt": the flavour pathlib.Path takes
    pc,               \* where the run of the specification stands
    inp,              \* the arguments of the call under check
    out,              \* its result and locals, NoValue before the call
    fs,               \* the file system: [files, dirs], sets of absolute paths
    tree              \* the archives: path -> [ok, names], names in infolist() order

vars == <<os_name, pc, inp, out, fs, tree>>

NoValue == <<>>

(***************************************************************************)
(* str helpers                                                             *)
(***************************************************************************)
SLASH == "/"
BSLASH == "\\"
DOT == "."

\* str.lower(): the symbols that carry upper case and their lower-case form
CaseMap ==
    [c \in {"A", "B", "X", "OFF", "Off", "MODEL", "JPG", "Reborn", "Textures", "GLM", "Models",
            "Players", "Assets1", "MODEL_default"} |->
        CASE c = "A" -> "a"
          [] c = "B" -> "b"
          [] c = "X" -> "x"
          [] c = "OFF" -> "off"
          [] c = "Off" -> "off"
          [] c = "MODEL" -> "model"
          [] c = "JPG" -> "jpg"
          [] c = "Reborn" -> "reborn"
          [] c = "Textures" -> "textures"
          [] c = "GLM" -> "glm"
          [] c = "Models" -> "models"
          [] c = "Players" -> "players"
          [] c = "Assets1" -> "assets1"
          [] c = "MODEL_default" -> "model_default"]

lower(s) == [i \in DOMAIN s |-> IF s[i] \in DOMAIN CaseMap THEN CaseMap[s[i]] ELSE s[i]]

\* s[i:] for a 1-based i
From(s, i) == SubSeq(s, i, Len(s))

\* str.lstrip(chars)
RECURSIVE lstrip(_, _)
lstrip(s, chars) ==
    IF s # <<>> /\ Head(s) \in chars THEN lstrip(Tail(s), chars) ELSE s

\* str.find(c, start): the first index >= start holding c, 0 when there is none
RECURSIVE Find(_, _, _)
Find(s, c, start) ==
    IF start > Len(s) THEN 0
    ELSE IF s[start] = c THEN start
    ELSE Find(s, c, start + 1)

\* str.replace(a, b) for single symbols
ReplaceChar(s, a, b) == [i \in DOMAIN s |-> IF s[i] = a THEN b ELSE s[i]]

\* str.split(sep): the pieces between the separators, empty ones included
RECURSIVE Split(_, _)
Split(s, sep) ==
    LET i == Find(s, sep, 1) IN
    IF i = 0 THEN <<s>>
    ELSE <<SubSeq(s, 1, i - 1)>> \o Split(From(s, i + 1), sep)

\* sep.join(pieces)
RECURSIVE Join(_, _)
Join(pieces, sep) ==
    IF pieces = <<>> THEN <<>>
    ELSE IF Len(pieces) = 1 THEN pieces[1]
    ELSE pieces[1] \o <<sep>> \o Join(Tail(pieces), sep)

RECURSIVE SelectSeqOf(_, _)
SelectSeqOf(seq, keep) ==
    IF seq = <<>> THEN <<>>
    ELSE (IF Head(seq) \in keep THEN <<Head(seq)>> ELSE <<>>) \o SelectSeqOf(Tail(seq), keep)

\* the path components pathlib keeps: neither empty nor "."
PathParts(rel) ==
    LET pieces == Split(rel, SLASH) IN
    SelectSeqOf(pieces, {pieces[i] : i \in DOMAIN pieces} \ {<<>>, <<DOT>>})

(***************************************************************************)
(* pathlib: Path(s).as_posix()                                             *)
(***************************************************************************)
\* PurePosixPath: a root of exactly two slashes is kept, any other run is "/"
PosixAsPosix(s) ==
    LET rest == lstrip(s, {SLASH})
        nroot == Len(s) - Len(rest)
        root == IF nroot = 0 THEN <<>> ELSE IF nroot = 2 THEN <<SLASH, SLASH>> ELSE <<SLASH>>
        parts == PathParts(rest)
    IN  IF root = <<>> /\ parts = <<>> THEN <<DOT>> ELSE root \o Join(parts, SLASH)

\* PureWindowsPath: "\\" and "/" both separate; "//host/share" is a UNC drive
\* followed by a root (drive letters and extended paths need ":" and "?", which
\* the alphabet of the model does not hold)
NtAsPosix(s) ==
    LET p == ReplaceChar(s, BSLASH, SLASH)
        isUnc == /\ Len(p) >= 2
                 /\ p[1] = SLASH
                 /\ p[2] = SLASH
                 /\ (Len(p) < 3 \/ p[3] # SLASH)
        index == Find(p, SLASH, 3)
        index2 == IF index = 0 THEN 0 ELSE Find(p, SLASH, index + 1)
        uncEnd == IF index2 = 0 THEN Len(p) + 1 ELSE index2
        rest == lstrip(p, {SLASH})
    IN  IF isUnc /\ index # 0 /\ index2 # index + 1
        THEN SubSeq(p, 1, uncEnd - 1) \o <<SLASH>> \o Join(PathParts(From(p, uncEnd + 1)), SLASH)
        ELSE LET root == IF Len(rest) < Len(p) THEN <<SLASH>> ELSE <<>>
                 parts == PathParts(rest)
             IN  IF root = <<>> /\ parts = <<>> THEN <<DOT>> ELSE root \o Join(parts, SLASH)

as_posix(s) == IF os_name = "nt" THEN NtAsPosix(s) ELSE PosixAsPosix(s)

(***************************************************************************)
(* index.normalize_rel                                                     *)
(***************************************************************************)
normalize_rel(path) == lstrip(lower(as_posix(path)), {DOT, SLASH})

(***************************************************************************)
(* The normaliser on its own: every short path string, on both flavours.  *)
(***************************************************************************)
MaxPathLen == 4

PathAlphabet == {"a", "A", DOT, SLASH, BSLASH}

RECURSIVE StringsUpTo(_, _)
StringsUpTo(alphabet, n) ==
    IF n = 0 THEN {<<>>}
    ELSE LET shorter == StringsUpTo(alphabet, n - 1) IN
         shorter \cup {Append(s, c) : s \in {t \in shorter : Len(t) = n - 1}, c \in alphabet}

\* os.sep
PlatformSep == IF os_name = "nt" THEN BSLASH ELSE SLASH

\* the symbols that may stand in for c in a path that differs from it only in
\* letter case or in "/" versus the platform separator
SameUpToCaseAndSep(c) ==
    {d \in PathAlphabet :
        \/ d = c
        \/ lower(<<d>>) = lower(<<c>>)
        \/ {c, d} = {SLASH, PlatformSep}}

Variants(x) ==
    {y \in [DOMAIN x -> PathAlphabet] : \A i \in DOMAIN x : y[i] \in SameUpToCaseAndSep(x[i])}

InitNorm ==
    /\ os_name \in {"posix", "nt"}
    /\ pc = "start"
    /\ inp \in StringsUpTo(PathAlphabet, MaxPathLen)
    /\ out = NoValue
    /\ fs = NoValue
    /\ tree = NoValue

\* key = normalize_rel(x); again = normalize_rel(key); other = normalize_rel(y)
Normalize ==
    /\ pc = "start"
    /\ pc' = "done"
    /\ \E y \in Variants(inp) :
          out' = [variant |-> y,
                  key |-> normalize_rel(inp),
                  again |-> normalize_rel(normalize_rel(inp)),
                  other |-> normalize_rel(y)]
    /\ UNCHANGED <<os_name, inp, fs, tree>>

NextNorm == Normalize

SpecNorm == InitNorm /\ [][NextNorm]_vars

\* C6: normalize_rel is idempotent for every path input, and two paths that
\* differ only in letter case or in "/" versus the platform separator have the
\* same key.
C6_IdempotentAndInsensitive ==
    pc = "done" => (out.again = out.key /\ out.other = out.key)

(***************************************************************************)
(* skin.parse_skin_text                                                    *)
(***************************************************************************)
NL == "\n"
COMMA == ","
SPACE == " "
STAR == "*"

\* str.rstrip() and str.strip() of white space
RECURSIVE rstrip(_, _)
rstrip(s, chars) ==
    IF s # <<>> /\ s[Len(s)] \in chars THEN rstrip(SubSeq(s, 1, Len(s) - 1), chars) ELSE s

strip(s) == rstrip(lstrip(s, {SPACE}), {SPACE})

\* str.startswith(prefix)
startswith(s, prefix) == Len(s) >= Len(prefix) /\ SubSeq(s, 1, Len(prefix)) = prefix

\* str.splitlines(): the pieces between line breaks, no empty piece after the last
splitlines(text) ==
    LET pieces == Split(text, NL) IN
    IF pieces[Len(pieces)] = <<>> THEN SubSeq(pieces, 1, Len(pieces) - 1) ELSE pieces

\* A dict is the sequence of its <<key, value>> items in insertion order.
DictKeys(d) == {d[i][1] : i \in DOMAIN d}

\* d[k]
DictGet(d, k) == d[CHOOSE i \in DOMAIN d : d[i][1] = k][2]

DictItems(d) == {d[i] : i \in DOMAIN d}

\* d[k] = v: a key already held keeps its place
DictSet(d, k, v) ==
    IF k \in DictKeys(d)
    THEN [i \in DOMAIN d |-> IF d[i][1] = k THEN <<k, v>> ELSE d[i]]
    ELSE Append(d, <<k, v>>)

\* the texture references that mean "no texture"
OffRefs == {<<STAR, "off">>, <<"off">>}

\* one turn of the loop of parse_skin_text over raw_line
ParseSkinLineOffCased(mapping, raw_line) ==
    LET line == strip(raw_line)
        comma == Find(line, COMMA, 1)
        part == strip(SubSeq(line, 1, comma - 1))
        tex == strip(From(line, comma + 1))
    IN  IF line = <<>> \/ startswith(line, <<SLASH, SLASH>>) THEN mapping
        ELSE IF comma = 0 THEN mapping
        ELSE IF tex \in OffRefs THEN mapping
        ELSE IF part # <<>> THEN DictSet(mapping, part, tex)
        ELSE mapping

ParseSkinLine(mapping, raw_line) ==
    LET line == strip(raw_line)
        comma == Find(line, COMMA, 1)
        part == strip(SubSeq(line, 1, comma - 1))
        tex == strip(From(line, comma + 1))
    IN  IF line = <<>> \/ startswith(line, <<SLASH, SLASH>>) THEN mapping
        ELSE IF comma = 0 THEN mapping
        ELSE IF lower(tex) \in OffRefs THEN mapping
        ELSE IF part # <<>> THEN DictSet(mapping, part, tex)
        ELSE mapping

RECURSIVE ParseSkinLines(_, _)
ParseSkinLines(mapping, lines) ==
    IF lines = <<>> THEN mapping
    ELSE ParseSkinLines(ParseSkinLine(mapping, Head(lines)), Tail(lines))

parse_skin_text(text) == ParseSkinLines(<<>>, splitlines(text))

(***************************************************************************)
(* The skin parser on its own: every text of up to MaxLines lines drawn    *)
(* from SkinLineMenu, with and without a final line break, and the text of *)
(* the documented example.                                                 *)
(***************************************************************************)
MaxLines == 2

SkinPartMenu == {<<>>, <<"head">>, <<"torso">>}

SkinRefMenu ==
    {<<>>, <<"x">>, <<SPACE, "model_blue", DOT, "jpg", SPACE>>, <<STAR, "OFF">>, <<SPACE, "Off">>}

SkinLineMenu ==
    {p \o <<COMMA>> \o t : p \in SkinPartMenu, t \in SkinRefMenu}
    \cup {<<>>,
          <<SPACE>>,
          <<"head">>,
          <<SLASH, SLASH, "head", COMMA, "x">>,
          <<SPACE, SLASH, SLASH, "head", COMMA, "x">>,
          <<SLASH, "head", COMMA, "x">>,
          <<"head", SPACE, COMMA, "x", COMMA, "y">>,
          <<"off", COMMA, "x">>,
          <<"torso", COMMA, "off", "x">>}

SkinExampleLines ==
    << <<"head", COMMA, SPACE, "model_blue", DOT, "jpg">>,
       <<SLASH, SLASH, SPACE, "comment">>,
       <<"torso", COMMA, STAR, "off">> >>

SkinLineLists ==
    UNION {[1..n -> SkinLineMenu] : n \in 0..MaxLines} \cup {SkinExampleLines}

InitSkin ==
    /\ os_name = "posix"
    /\ pc = "start"
    /\ \E lines \in SkinLineLists, final \in {<<>>, <<NL>>} :
          inp = [lines |-> lines, text |-> Join(lines, NL) \o final]
    /\ out = NoValue
    /\ fs = NoValue
    /\ tree = NoValue

ParseSkin ==
    /\ pc = "start"
    /\ pc' = "done"
    /\ out' = parse_skin_text(inp.text)
    /\ UNCHANGED <<os_name, inp, fs, tree>>

NextSkin == ParseSkin

SpecSkin == InitSkin /\ [][NextSkin]_vars

\* what the claim says of one line: its part and reference, trimmed
LinePart(l) == strip(SubSeq(strip(l), 1, Find(strip(l), COMMA, 1) - 1))

LineRef(l) == strip(From(strip(l), Find(strip(l), COMMA, 1) + 1))

\* a line the claim lets through: not blank, no comment, with a separator, and
\* a reference other than off and *off in any letter case
LineSurvives(l) ==
    /\ strip(l) # <<>>
    /\ ~startswith(strip(l), <<SLASH, SLASH>>)
    /\ Find(strip(l), COMMA, 1) # 0
    /\ lower(LineRef(l)) \notin OffRefs

\* the pairs of the lines in keep, the last line of a part winning
LastWins(lines, keep) ==
    {<<LinePart(lines[i]), LineRef(lines[i])>> :
        i \in {j \in keep : \A k \in keep : k > j => LinePart(lines[k]) # LinePart(lines[j])}}

\* C7 as claimed: the map holds exactly the pairs of the surviving lines.
C7_ExactlySurvivingLines ==
    pc = "done" =>
        DictItems(out) = LastWins(inp.lines, {i \in DOMAIN inp.lines : LineSurvives(inp.lines[i])})

\* C7 as amended: the map holds exactly the pairs of the surviving lines whose
\* trimmed part is not empty, the last line of a part winning; the documented
\* example yields head -> model_blue.jpg alone.
C7_SurvivingLinesWithPart ==
    pc = "done" =>
        /\ DictItems(out) =
             LastWins(inp.lines,
                      {i \in DOMAIN inp.lines :
                          LineSurvives(inp.lines[i]) /\ LinePart(inp.lines[i]) # <<>>})
        /\ \A i, j \in DOMAIN out : out[i][1] = out[j][1] => i = j
        /\ (inp.lines = SkinExampleLines =>
               DictItems(out) = {<< <<"head">>, <<"model_blue", DOT, "jpg">> >>})

\* the documented example, with its comment line and its off line, parsed
C7_Witness ==
    /\ pc = "done"
    /\ inp.lines = SkinExampleLines
    /\ DictItems(out) = {<< <<"head">>, <<"model_blue", DOT, "jpg">> >>}

(***************************************************************************)
(* pk3.safe_extract_members                                                *)
(***************************************************************************)
DOTDOT == <<DOT, DOT>>

\* os.getcwd()
Cwd == <<SLASH, "r">>

\* Path.is_absolute()
IsAbsolute(path) == path # <<>> /\ path[1] = SLASH

\* a / b for pathlib paths: an absolute b replaces a
PathJoin(a, b) == IF IsAbsolute(b) THEN PosixAsPosix(b) ELSE PosixAsPosix(a \o <<SLASH>> \o b)

\* the components of an absolute path with every ".." taken (no symbolic links)
RECURSIVE Collapse(_, _)
Collapse(done, parts) ==
    IF parts = <<>> THEN done
    ELSE IF Head(parts) = DOTDOT
         THEN Collapse(IF done = <<>> THEN done ELSE SubSeq(done, 1, Len(done) - 1), Tail(parts))
         ELSE Collapse(Append(done, Head(parts)), Tail(parts))

ResolvedParts(path) ==
    Collapse(<<>>, PathParts(IF IsAbsolute(path) THEN path ELSE Cwd \o <<SLASH>> \o path))

\* Path.resolve()
resolve(path) == <<SLASH>> \o Join(ResolvedParts(path), SLASH)

\* Path.parent of an absolute, resolved path
Parent(path) ==
    LET parts == PathParts(path) IN
    IF parts = <<>> THEN path ELSE <<SLASH>> \o Join(SubSeq(parts, 1, Len(parts) - 1), SLASH)

\* the path and the directories above it, the root included
Ancestors(path) ==
    LET parts == PathParts(path) IN
    {<<SLASH>> \o Join(SubSeq(parts, 1, n), SLASH) : n \in 0..(Len(parts) - 1)}

\* Path.mkdir(parents=True, exist_ok=True): fails when the path or a directory
\* above it is a file
MkdirFails(files, path) == (Ancestors(path) \cup {path}) \cap files # {}

Mkdir(dirs, path) == dirs \cup Ancestors(path) \cup {path}

\* ZipInfo.is_dir()
ZipIsDir(filename) == filename # <<>> /\ filename[Len(filename)] = SLASH

\* the guard of the loop of safe_extract_members
Unsafe(destination, resolved_target) == ~startswith(resolved_target, destination)

\* one turn of the loop of safe_extract_members, over members[pos + 1]
ExtractMember ==
    /\ pc = "extracting"
    /\ out.pos < Len(inp.members)
    /\ LET destination == resolve(inp.destination)
           filename == inp.members[out.pos + 1]
           resolved_target == resolve(PathJoin(destination, filename))
       IN  IF Unsafe(destination, resolved_target)
           THEN /\ pc' = "ArchiveError"
                /\ UNCHANGED <<out, fs>>
           ELSE IF ZipIsDir(filename)
           THEN IF MkdirFails(fs.files, resolved_target)
                THEN /\ pc' = "OSError"
                     /\ UNCHANGED <<out, fs>>
                ELSE /\ fs' = [fs EXCEPT !.dirs = Mkdir(@, resolved_target)]
                     /\ out' = [out EXCEPT !.pos = @ + 1,
                                           !.created = @ \cup (Mkdir(fs.dirs, resolved_target) \ fs.dirs)]
                     /\ pc' = pc
           ELSE IF MkdirFails(fs.files, Parent(resolved_target))
           THEN /\ pc' = "OSError"
                /\ UNCHANGED <<out, fs>>
           ELSE IF resolved_target \in Mkdir(fs.dirs, Parent(resolved_target))
           THEN /\ pc' = "OSError"
                /\ fs' = [fs EXCEPT !.dirs = Mkdir(@, Parent(resolved_target))]
                /\ out' = [out EXCEPT !.created =
                              @ \cup (Mkdir(fs.dirs, Parent(resolved_target)) \ fs.dirs)]
           ELSE /\ fs' = [files |-> fs.files \cup {resolved_target},
                          dirs |-> Mkdir(fs.dirs, Parent(resolved_target))]
                /\ out' = [pos |-> out.pos + 1,
                           extracted |-> Append(out.extracted, filename),
                           created |-> out.created
                                         \cup (Mkdir(fs.dirs, Parent(resolved_target)) \ fs.dirs)
                                         \cup ({resolved_target} \ fs.files)]
                /\ pc' = pc
    /\ UNCHANGED <<os_name, inp, tree>>

\* return extracted
ExtractReturn ==
    /\ pc = "extracting"
    /\ out.pos = Len(inp.members)
    /\ pc' = "returned"
    /\ UNCHANGED <<os_name, inp, out, fs, tree>>

(***************************************************************************)
(* The extractor on its own: member lists of up to MaxMembers names drawn  *)
(* from MemberMenu, into a destination that exists.                        *)
(***************************************************************************)
MaxMembers == 2

DestinationMenu ==
    {<<SLASH, "r", SLASH, "out">>,
     <<"out">>,
     <<SLASH, "r", SLASH, "out", SLASH, DOT, DOT, SLASH, "in">>}

MemberMenu ==
    {<<"ok", DOT, "txt">>,
     <<"d", SLASH>>,
     <<"d", SLASH, "ok", DOT, "txt">>,
     <<DOT, DOT, SLASH, "out", "side", DOT, "txt">>,
     <<DOT, DOT, SLASH, "out", "_x", SLASH, "evil", DOT, "txt">>,
     <<DOT, DOT, SLASH, "etc", SLASH>>,
     <<DOT, DOT, SLASH, "etc", SLASH, "passwd">>,
     <<SLASH, "etc", SLASH, "passwd">>,
     <<"d", SLASH, DOT, DOT, SLASH, "ok", DOT, "txt">>}

\* the files found in the destination before the call
EarlierFilesMenu == {{}, {<<"d">>}, {<<"ok", DOT, "txt">>}}

InitExtract ==
    /\ os_name = "posix"
    /\ pc = "extracting"
    /\ \E destination \in DestinationMenu, n \in 0..MaxMembers :
          \E members \in [1..n -> MemberMenu], earlier \in EarlierFilesMenu :
             /\ inp = [destination |-> destination, members |-> members]
             /\ fs = [files |-> {resolve(PathJoin(resolve(destination), f)) : f \in earlier},
                      dirs |-> Mkdir({}, resolve(destination))]
    /\ out = [pos |-> 0, extracted |-> <<>>, created |-> {}]
    /\ tree = NoValue

NextExtract == ExtractMember \/ ExtractReturn

SpecExtract == InitExtract /\ [][NextExtract]_vars

\* path is the directory root or lies below it
IsWithin(path, root) ==
    LET p == PathParts(path)
        r == PathParts(root)
    IN  Len(p) >= Len(r) /\ SubSeq(p, 1, Len(r)) = r

\* the resolved destination of member i
MemberTarget(i) == resolve(PathJoin(resolve(inp.destination), inp.members[i]))

\* C1: safe_extract_members creates no file or directory outside the resolved
\* destination root, and no member whose destination escapes the root gets past
\* the guard: the call stops at it with ArchiveError.
C1_NoEscape ==
    pc \in {"extracting", "returned", "ArchiveError", "OSError"} =>
        /\ \A path \in out.created : IsWithin(path, resolve(inp.destination))
        /\ \A i \in 1..out.pos : IsWithin(MemberTarget(i), resolve(inp.destination))
        /\ (pc = "OSError" => IsWithin(MemberTarget(out.pos + 1), resolve(inp.destination)))

(***************************************************************************)
(* pathlib names; data_types.FileSource; pk3.open_pk3                      *)
(***************************************************************************)
None == <<>>

\* the element of a one-element set: Only({e(x) : x \in {v}}) is e(v), with v
\* computed once
Only(S) == CHOOSE v \in S : TRUE

\* Path.name
PathName(path) ==
    LET parts == PathParts(path) IN IF parts = <<>> THEN <<>> ELSE parts[Len(parts)]

\* str.rfind("."): the last index holding ".", 0 when there is none
RECURSIVE RFindDot(_, _)
RFindDot(name, i) ==
    IF i = 0 THEN 0 ELSE IF name[i] = DOT THEN i ELSE RFindDot(name, i - 1)

\* Path.suffix: from the last "." of the name, unless it is first or last
Suffix(path) ==
    LET name == PathName(path)
        i == RFindDot(name, Len(name))
    IN  IF 1 < i /\ i < Len(name) THEN From(name, i) ELSE <<>>

\* Path.stem
Stem(path) ==
    LET name == PathName(path) IN SubSeq(name, 1, Len(name) - Len(Suffix(path)))

\* the recognised texture extensions, in their order of preference
TEXTURE_EXTS == << <<DOT, "jpg">>, <<DOT, "png">>, <<DOT, "tga">> >>

\* suffix in TEXTURE_EXTS
InTextureExts(suffix) == \E i \in DOMAIN TEXTURE_EXTS : TEXTURE_EXTS[i] = suffix

FileSource(origin, container, rel_path) ==
    [origin |-> origin, container |-> container, rel_path |-> rel_path]

\* pk3.open_pk3 returns a ZipFile: the file exists and is a readable zip
OpensAsZip(container) == container \in DOMAIN tree /\ tree[container].ok

(***************************************************************************)
(* cache.cleanup_cache and cache.extract_assets                            *)
(***************************************************************************)
\* file.relative_to(cache_root), for a path below cache_root
RelativeTo(path, root) == From(path, Len(root) + 2)

\* cache_root.rglob("*"): what lies below cache_root
Below(paths, root) == {p \in paths : p # root /\ IsWithin(p, root)}

\* the directories cleanup_cache removes: deepest first, each one that is empty
\* when its turn comes, so every directory with no file left below it
EmptyDirs(files, dirs, cache_root) ==
    {d \in Below(dirs, cache_root) : Below(files, d) = {}}

KeptByCleanup(path, cache_root, keep_set) ==
    normalize_rel(RelativeTo(path, cache_root)) \in keep_set

cleanup_cache(f, cache_root, keep_set) ==
    IF cache_root \notin f.dirs THEN f
    ELSE LET files == {p \in f.files :
                          IsWithin(p, cache_root) => KeptByCleanup(p, cache_root, keep_set)}
         IN  [f EXCEPT !.files = files,
                       !.dirs = f.dirs \ EmptyDirs(files, f.dirs, cache_root),
                       !.text = [p \in DOMAIN f.text \cap files |-> f.text[p]]]

\* the text of a file: f.text holds the texts of the files that have one, the
\* skin files
TextOf(f, path) == IF path \in DOMAIN f.text THEN f.text[path] ELSE <<>>

\* the file system with the text written to the file
WriteFile(f, path, text) ==
    [f EXCEPT !.files = @ \cup {path},
              !.text = IF text = <<>>
                       THEN [p \in DOMAIN f.text \ {path} |-> f.text[p]]
                       ELSE [p \in DOMAIN f.text \cup {path} |->
                                IF p = path THEN text ELSE f.text[p]]]

\* what the copy reads: the disk file, or the member of the archive
SourceText(f, base_dir, src) ==
    IF src.origin = "disk" THEN TextOf(f, PathJoin(base_dir, src.rel_path))
    ELSE IF Suffix(src.rel_path) = <<DOT, "skin">> THEN tree[src.container].text
    ELSE <<>>

\* shutil.copy2(src, dst) and open(dst, "wb"): the file written, None on failure
CopyTarget(f, base_dir, src, dest_path) ==
    IF src.origin = "disk"
    THEN LET from == PathJoin(base_dir, src.rel_path)
             into == IF dest_path \in f.dirs THEN PathJoin(dest_path, PathName(from))
                     ELSE dest_path
         IN  IF from \notin f.files \/ into \in f.dirs THEN None ELSE into
    ELSE IF ~OpensAsZip(src.container) THEN None
    ELSE IF \A i \in DOMAIN tree[src.container].names :
               tree[src.container].names[i] # src.rel_path
    THEN None
    ELSE IF dest_path \in f.dirs THEN None
    ELSE dest_path

\* one turn of the loop of extract_assets; st = [f, keep, failed, texture_map,
\* raised]
ExtractAsset(st, base_dir, cache_root, asset) ==
    LET src == asset[1]
        dest_rel == asset[2]
        keep == st.keep \cup {normalize_rel(dest_rel)}
        dest_path == PathJoin(cache_root, dest_rel)
    IN  IF MkdirFails(st.f.files, Parent(dest_path))
        THEN [st EXCEPT !.keep = keep, !.raised = TRUE]
        ELSE Only({IF target = None
                   THEN [st EXCEPT !.f = made, !.keep = keep, !.failed = Append(@, dest_rel)]
                   ELSE [st EXCEPT !.f = WriteFile(made, target, SourceText(st.f, base_dir, src)),
                                   !.keep = keep,
                                   !.texture_map =
                                       IF InTextureExts(lower(Suffix(dest_path)))
                                       THEN DictSet(@, lower(Stem(dest_path)), dest_path)
                                       ELSE @] :
                   made \in {[st.f EXCEPT !.dirs = Mkdir(@, Parent(dest_path))]},
                   target \in {CopyTarget([st.f EXCEPT !.dirs = Mkdir(@, Parent(dest_path))],
                                          base_dir, src, dest_path)}})

\* the loop of extract_assets over the assets left
RECURSIVE ExtractLoop(_, _, _, _)
ExtractLoop(st, base_dir, cache_root, assets) ==
    IF assets = <<>> \/ st.raised THEN st
    ELSE Only({ExtractLoop(next, base_dir, cache_root, Tail(assets)) :
                  next \in {ExtractAsset(st, base_dir, cache_root, Head(assets))}})

\* extract_assets: the file system it leaves, the texture_map and failed it
\* returns, and whether it raised instead
extract_assets(f, base_dir, cache_root, assets) ==
    IF MkdirFails(f.files, cache_root)
    THEN [f |-> f, texture_map |-> <<>>, failed |-> <<>>, raised |-> TRUE]
    ELSE Only({IF st.raised
               THEN [f |-> st.f, texture_map |-> <<>>, failed |-> st.failed, raised |-> TRUE]
               ELSE [f |-> cleanup_cache(st.f, cache_root, st.keep),
                     texture_map |-> st.texture_map, failed |-> st.failed, raised |-> FALSE] :
               st \in {ExtractLoop([f |-> [f EXCEPT !.dirs = Mkdir(@, cache_root)],
                                    keep |-> {}, failed |-> <<>>, texture_map |-> <<>>,
                                    raised |-> FALSE],
                                   base_dir, cache_root, assets)}})

(***************************************************************************)
(* The materialiser on its own: one asset list of up to MaxAssets assets,  *)
(* materialised up to MaxCalls times into a cache that holds any of the    *)
(* earlier contents of CacheFileMenu and CacheDirMenu.                     *)
(***************************************************************************)
MaxAssets == 2

MaxCalls == 2

BaseDir == <<SLASH, "g">>

CacheRoot == PathJoin(BaseDir, <<"cache">>)

ZPk3 == PathJoin(BaseDir, <<"z", DOT, "pk3">>)

AssetMenu ==
    {<<FileSource("disk", None, <<"a", DOT, "jpg">>), <<"a", DOT, "jpg">> >>,
     <<FileSource("pk3", ZPk3, <<"A", DOT, "jpg">>), <<"A", DOT, "jpg">> >>,
     <<FileSource("pk3", ZPk3, <<"d", SLASH, "b", DOT, "skin">>), <<"d", SLASH, "b", DOT, "skin">> >>,
     <<FileSource("disk", None, <<"d", SLASH, "c", DOT, "jpg">>), <<"d", SLASH, "c", DOT, "jpg">> >>}

\* files of the cache before the first call, relative to the cache root
CacheFileMenu ==
    {<<"a", DOT, "jpg">>,
     <<"A", DOT, "jpg">>,
     <<DOT, "a", DOT, "jpg">>,
     <<"old", DOT, "tga">>,
     <<"d", SLASH, "b", DOT, "skin">>,
     <<"a", DOT, "jpg", SLASH, "y", DOT, "jpg">>,
     <<"d">>}

\* empty directories of the cache before the first call
CacheDirMenu == {<<"e">>, <<"d", SLASH, "c", DOT, "jpg">>}

\* the source trees: the files on disk and the archive z.pk3
SourceDiskMenu ==
    {{<<"a", DOT, "jpg">>, <<"d", SLASH, "c", DOT, "jpg">>}, {<<"d", SLASH, "c", DOT, "jpg">>}}

SourceArchiveMenu ==
    {[ok |-> TRUE, names |-> << <<"A", DOT, "jpg">>, <<"d", SLASH, "b", DOT, "skin">> >>,
      text |-> <<>>],
     [ok |-> TRUE, names |-> << <<"A", DOT, "jpg">> >>, text |-> <<>>],
     [ok |-> FALSE, names |-> <<>>, text |-> <<>>]}

\* no file lies where a directory is needed
ValidFs(files, dirs) ==
    \A p \in files : p \notin dirs /\ \A q \in files \cup dirs : q # p => ~IsWithin(q, p)

RECURSIVE MkdirAll(_, _)
MkdirAll(dirs, paths) ==
    IF paths = {} THEN dirs
    ELSE LET p == CHOOSE q \in paths : TRUE IN MkdirAll(Mkdir(dirs, p), paths \ {p})

InitCache ==
    /\ os_name = "posix"
    /\ pc = "start"
    /\ \E n \in 0..MaxAssets : \E assets \in [1..n -> AssetMenu] :
          inp = [base_dir |-> BaseDir, cache_root |-> CacheRoot, assets |-> assets]
    /\ \E disk \in SourceDiskMenu, cached \in SUBSET CacheFileMenu, empty \in SUBSET CacheDirMenu :
          LET files == {PathJoin(BaseDir, p) : p \in disk} \cup {ZPk3}
                         \cup {PathJoin(CacheRoot, p) : p \in cached}
              dirs == MkdirAll({BaseDir}, {Parent(p) : p \in files}
                                             \cup {PathJoin(CacheRoot, p) : p \in empty})
          IN  /\ ValidFs(files, dirs)
              /\ fs = [files |-> files, dirs |-> dirs, text |-> <<>>]
    /\ \E archive \in SourceArchiveMenu : tree = [c \in {ZPk3} |-> archive]
    /\ out = [calls |-> 0, texture_map |-> <<>>, failed |-> <<>>, first |-> None]

\* texture_map, failed = extract_assets(base_dir, cache_root, assets)
ExtractAssets ==
    /\ out.calls < MaxCalls
    /\ \E r \in {extract_assets(fs, inp.base_dir, inp.cache_root, inp.assets)} :
           /\ fs' = r.f
           /\ pc' = IF r.raised THEN "raised" ELSE "returned"
           /\ out' = [calls |-> out.calls + 1,
                      texture_map |-> r.texture_map,
                      failed |-> r.failed,
                      first |-> IF out.calls = 0
                                THEN [pc |-> pc', failed |-> r.failed, files |-> r.f.files]
                                ELSE out.first]
    /\ UNCHANGED <<os_name, inp, tree>>

NextCache == ExtractAssets

SpecCache == InitCache /\ [][NextCache]_vars

\* the destination paths of the asset list of the call
Destinations == {PathJoin(inp.cache_root, inp.assets[i][2]) : i \in DOMAIN inp.assets}

\* C2: after a call of extract_assets returns, the files under cache_root are
\* exactly the destination paths of its asset list.
C2_CacheIsExactlyDestinations ==
    pc = "returned" => Below(fs.files, inp.cache_root) = Destinations

\* every source of the asset list exists: the disk file, or the archive and its
\* member
FullyResolvable ==
    \A i \in DOMAIN inp.assets :
        LET src == inp.assets[i][1] IN
        IF src.origin = "disk" THEN PathJoin(inp.base_dir, src.rel_path) \in fs.files
        ELSE /\ OpensAsZip(src.container)
             /\ \E k \in DOMAIN tree[src.container].names :
                   tree[src.container].names[k] = src.rel_path

\* C9: for a fully resolvable asset list, two calls in a row leave the same
\* file set, and failedPaths is empty both times.
C9_Idempotent ==
    (FullyResolvable /\ out.calls >= 1 /\ pc = "returned" /\ out.first.pc = "returned") =>
        /\ out.failed = <<>>
        /\ out.first.failed = <<>>
        /\ (out.calls = 2 => Below(fs.files, inp.cache_root) = Below(out.first.files, inp.cache_root))

\* C13: a call of extract_assets returns and never raises, and for each asset of
\* its list either the file lies at cache_root/destination afterwards or the
\* destination is listed in failedPaths.
C13_NeverRaises ==
    out.calls >= 1 =>
        /\ pc = "returned"
        /\ \A i \in DOMAIN inp.assets :
              \/ PathJoin(inp.cache_root, inp.assets[i][2]) \in fs.files
              \/ \E j \in DOMAIN out.failed : out.failed[j] = inp.assets[i][2]

(***************************************************************************)
(* data_types.ModelSource and dict helpers of the index                    *)
(***************************************************************************)
ModelSource(origin, container) ==
    [origin |-> origin, container |-> container, glm |-> None, skins |-> {}, glas |-> {}]

\* d.setdefault(k, []).append(v)
DictAppend(d, k, v) ==
    IF k \in DictKeys(d)
    THEN [i \in DOMAIN d |-> IF d[i][1] = k THEN <<k, Append(d[i][2], v)>> ELSE d[i]]
    ELSE Append(d, <<k, <<v>> >>)

\* list(d.values())
DictValues(d) == [i \in DOMAIN d |-> d[i][2]]

\* Path.parts of a relative path or of an absolute one
Parts(path) == (IF IsAbsolute(path) THEN << <<SLASH>> >> ELSE <<>>) \o PathParts(path)

(***************************************************************************)
(* index.source_priority and the sorts of index.build_index                *)
(***************************************************************************)
source_priority(src) ==
    IF src.origin = "disk" THEN <<0, 0>>
    ELSE IF src.container # None /\ lower(PathName(src.container)) = <<"assets1", DOT, "pk3">>
    THEN <<1, 0>>
    ELSE <<1, 1>>

\* a < b for the tuples of source_priority
TupleLess(a, b) == a[1] < b[1] \/ (a[1] = b[1] /\ a[2] < b[2])

\* glm_sources[0]: the sources left in the order of the scan
FirstInScanOrder(glm_sources) == glm_sources[1]

\* sorted(glm_sources, key=source_priority)[0]: the first source no other one
\* goes before
FirstByPriority(glm_sources) ==
    glm_sources[CHOOSE i \in DOMAIN glm_sources :
                   /\ \A j \in DOMAIN glm_sources :
                         ~TupleLess(source_priority(glm_sources[j]), source_priority(glm_sources[i]))
                   /\ \A j \in 1..(i - 1) :
                         TupleLess(source_priority(glm_sources[i]), source_priority(glm_sources[j]))]

\* the symbols of lower-cased paths in the order of their characters
SymbolOrder ==
    <<DOT, SLASH, "_humanoid", "a", "b", "gla", "glm", "jpg", "kyle", "model", "model_default",
      "model_red", "models", "players", "reborn", "skin">>

SymbolRank(c) == CHOOSE i \in DOMAIN SymbolOrder : SymbolOrder[i] = c

\* a < b for str
RECURSIVE StrLess(_, _)
StrLess(a, b) ==
    IF b = <<>> THEN FALSE
    ELSE IF a = <<>> THEN TRUE
    ELSE IF Head(a) = Head(b) THEN StrLess(Tail(a), Tail(b))
    ELSE SymbolRank(Head(a)) < SymbolRank(Head(b))

\* the iteration order of a set: one order, or the opposite one
RECURSIVE SetOrder(_)
SetOrder(S) ==
    IF S = {} THEN <<>>
    ELSE LET x == CHOOSE y \in S : TRUE IN <<x>> \o SetOrder(S \ {x})

Reverse(seq) == [i \in DOMAIN seq |-> seq[Len(seq) + 1 - i]]

Iterate(S, backwards) == IF backwards THEN Reverse(SetOrder(S)) ELSE SetOrder(S)

\* sorted(paths, key=lambda p: p.as_posix().lower()): stable, so paths with the
\* same key stay in the order the set hands them out
RECURSIVE SortedInto(_, _)
SortedInto(done, todo) ==
    IF todo = <<>> THEN done
    ELSE LET p == Head(todo)
             n == Cardinality({i \in DOMAIN done : ~StrLess(lower(p), lower(done[i]))})
         IN  SortedInto(SubSeq(done, 1, n) \o <<p>> \o SubSeq(done, n + 1, Len(done)), Tail(todo))

SortedSkins(skins, backwards) == SortedInto(<<>>, Iterate(skins, backwards))

(***************************************************************************)
(* index.build_index: st holds models_tmp, textures_by_rel,                *)
(* textures_by_stem and gla_index while the scan goes on; st.raised is set *)
(* when an exception leaves the scan.                                      *)
(***************************************************************************)
add_texture(st, rel, origin, container) ==
    [st EXCEPT !.textures_by_rel =
                   DictAppend(@, normalize_rel(rel), FileSource(origin, container, rel)),
               !.textures_by_stem =
                   DictAppend(@, lower(Stem(rel)), FileSource(origin, container, rel))]

add_gla(st, rel, origin, container) ==
    [st EXCEPT !.gla_index = DictAppend(@, normalize_rel(rel), FileSource(origin, container, rel))]

\* models_tmp.setdefault(name, {"sources": {}, "skins": set()})
get_entry(models_tmp, name) ==
    IF name \in DictKeys(models_tmp) THEN DictGet(models_tmp, name)
    ELSE [sources |-> <<>>, skins |-> {}]

\* entry["sources"].get(key), and the new ModelSource when there is none
SourceAt(entry, key, origin, container) ==
    IF key \in DictKeys(entry.sources) THEN DictGet(entry.sources, key)
    ELSE ModelSource(origin, container)

\* the entry of name with source put at key and skins added to its skin set
PutSource(st, name, key, source, skins) ==
    [st EXCEPT !.models_tmp =
        DictSet(@, name, [sources |-> DictSet(get_entry(@, name).sources, key, source),
                          skins |-> get_entry(@, name).skins \cup skins])]

\* one turn of the loop over zf.infolist()
ScanMember(st, pk3_path, filename) ==
    LET rel == as_posix(filename)
        suffix == lower(Suffix(rel))
        parts == Parts(rel)
        name == PathName(rel)
    IN  IF ZipIsDir(filename) THEN st
        ELSE IF InTextureExts(suffix) THEN add_texture(st, rel, "pk3", pk3_path)
        ELSE IF Len(parts) < 3 THEN st
        ELSE IF lower(parts[1]) # <<"models">> \/ lower(parts[2]) # <<"players">> THEN st
        ELSE Only({IF suffix = <<DOT, "glm">>
                   THEN PutSource(st, parts[3], pk3_path,
                                  IF source.glm = None \/ lower(name) = <<"model", DOT, "glm">>
                                  THEN [source EXCEPT !.glm = rel] ELSE source, {})
                   ELSE IF suffix = <<DOT, "skin">>
                   THEN PutSource(st, parts[3], pk3_path,
                                  [source EXCEPT !.skins = @ \cup {rel}], {rel})
                   ELSE IF suffix = <<DOT, "gla">>
                   THEN add_gla(PutSource(st, parts[3], pk3_path,
                                          [source EXCEPT !.glas = @ \cup {rel}], {}),
                                rel, "pk3", pk3_path)
                   ELSE PutSource(st, parts[3], pk3_path, source, {}) :
                   source \in {SourceAt(get_entry(st.models_tmp, parts[3]), pk3_path,
                                        "pk3", pk3_path)}})

RECURSIVE ScanMembers(_, _, _)
ScanMembers(st, pk3_path, names) ==
    IF names = <<>> THEN st
    ELSE Only({ScanMembers(next, pk3_path, Tail(names)) :
                  next \in {ScanMember(st, pk3_path, Head(names))}})

\* one turn of the loop over the archives: ZipFile(path) raises
\* IsADirectoryError for a directory, which is no ArchiveError
ScanArchive(st, pk3_path) ==
    IF pk3_path \in fs.dirs THEN [st EXCEPT !.raised = TRUE]
    ELSE IF ~OpensAsZip(pk3_path) THEN st
    ELSE ScanMembers(st, pk3_path, tree[pk3_path].names)

RECURSIVE ScanArchives(_, _)
ScanArchives(st, archives) ==
    IF archives = <<>> \/ st.raised THEN st
    ELSE Only({ScanArchives(next, Tail(archives)) : next \in {ScanArchive(st, Head(archives))}})

\* the paths of the model in the order sorted() gives them
PathOrder ==
    <<PathJoin(<<SLASH, "g">>, <<"a", DOT, "pk3">>),
      PathJoin(<<SLASH, "g">>, <<"assets1", DOT, "pk3">>),
      PathJoin(<<SLASH, "g">>, <<"sub", SLASH, "Assets1", DOT, "pk3">>),
      PathJoin(<<SLASH, "g">>, <<"z", DOT, "pk3">>),
      PathJoin(<<SLASH, "h">>, <<"d", DOT, "pk3">>)>>

\* fnmatch(name, "*." + ext), for the names base_dir.rglob and model_dir.glob see
GlobMatch(name, ext) ==
    Len(name) >= 2 /\ name[Len(name) - 1] = DOT /\ name[Len(name)] = ext

\* sorted(base_dir.rglob("*.pk3"))
SortedArchives(base_dir) ==
    SelectSeqOf(PathOrder, {p \in Below(fs.files \cup fs.dirs, base_dir) :
                               GlobMatch(PathName(p), "pk3")})

\* os.scandir(dir): the entries of a directory, in one order or the opposite one
Listing(dir, backwards) ==
    Iterate({p \in fs.files \cup fs.dirs : p # dir /\ Parent(p) = dir}, dir \in backwards)

\* dir.glob("*." + ext)
Glob(dir, ext, backwards) ==
    LET Matches(p) == GlobMatch(PathName(p), ext) IN SelectSeq(Listing(dir, backwards), Matches)

\* dir.rglob("*"): the entries of dir, then those of each directory below it
RECURSIVE Walk(_, _)
RECURSIVE WalkEach(_, _)
Walk(dir, backwards) ==
    Only({entries \o WalkEach(entries, backwards) : entries \in {Listing(dir, backwards)}})

WalkEach(entries, backwards) ==
    IF entries = <<>> THEN <<>>
    ELSE (IF Head(entries) \in fs.dirs THEN Walk(Head(entries), backwards) ELSE <<>>)
             \o WalkEach(Tail(entries), backwards)

RECURSIVE AddGlas(_, _, _, _)
AddGlas(st, rels, origin, container) ==
    IF rels = <<>> THEN st
    ELSE Only({AddGlas(next, Tail(rels), origin, container) :
                  next \in {add_gla(st, Head(rels), origin, container)}})

RECURSIVE AddTextures(_, _, _, _)
AddTextures(st, rels, origin, container) ==
    IF rels = <<>> THEN st
    ELSE Only({AddTextures(next, Tail(rels), origin, container) :
                  next \in {add_texture(st, Head(rels), origin, container)}})

\* [p.relative_to(base_dir) for p in paths]
RelativeAll(paths, base_dir) == [i \in DOMAIN paths |-> RelativeTo(paths[i], base_dir)]

\* the texture files among the paths of dir.rglob("*")
TextureFiles(dir, backwards) ==
    LET IsTexture(p) == p \in fs.files /\ InTextureExts(lower(Suffix(p)))
    IN  SelectSeq(Walk(dir, backwards), IsTexture)

\* next((p for p in glm_files if p.name.lower() == "model.glm"), glm_files[0])
PickGlm(glm_files) ==
    LET named == {i \in DOMAIN glm_files : lower(PathName(glm_files[i])) = <<"model", DOT, "glm">>}
    IN  IF named = {} THEN glm_files[1]
        ELSE glm_files[CHOOSE i \in named : \A j \in named : i <= j]

\* one turn of the loop over models_dir.iterdir()
ScanModelDir(st, base_dir, model_dir, backwards) ==
    IF model_dir \notin fs.dirs THEN st
    ELSE Only({IF glm_files = <<>> THEN st
               ELSE AddTextures(
                        AddGlas(PutSource(st, PathName(model_dir), model_dir,
                                          [source EXCEPT
                                              !.glm = RelativeTo(PickGlm(glm_files), base_dir),
                                              !.skins = @ \cup {skins[i] : i \in DOMAIN skins},
                                              !.glas = @ \cup {glas[i] : i \in DOMAIN glas}],
                                          {skins[i] : i \in DOMAIN skins}),
                                glas, "disk", None),
                        textures, "disk", None) :
               glm_files \in {Glob(model_dir, "glm", backwards)},
               source \in {SourceAt(get_entry(st.models_tmp, PathName(model_dir)), model_dir,
                                    "disk", None)},
               skins \in {RelativeAll(Glob(model_dir, "skin", backwards), base_dir)},
               glas \in {RelativeAll(Glob(model_dir, "gla", backwards), base_dir)},
               textures \in {RelativeAll(TextureFiles(model_dir, backwards), base_dir)}})

\* the loop over models_dir.iterdir() if it stopped at the first entry it skips
RECURSIVE ScanModelDirsUntilSkip(_, _, _, _)
ScanModelDirsUntilSkip(st, base_dir, model_dirs, backwards) ==
    IF model_dirs = <<>> THEN st
    ELSE IF Head(model_dirs) \notin fs.dirs \/ Glob(Head(model_dirs), "glm", backwards) = <<>>
    THEN st
    ELSE Only({ScanModelDirsUntilSkip(next, base_dir, Tail(model_dirs), backwards) :
                  next \in {ScanModelDir(st, base_dir, Head(model_dirs), backwards)}})

RECURSIVE ScanModelDirs(_, _, _, _)
ScanModelDirs(st, base_dir, model_dirs, backwards) ==
    IF model_dirs = <<>> THEN st
    ELSE Only({ScanModelDirs(next, base_dir, Tail(model_dirs), backwards) :
                  next \in {ScanModelDir(st, base_dir, Head(model_dirs), backwards)}})

\* the scan of base_dir/models/players
ScanDiskModels(st, base_dir, backwards) ==
    LET models_dir == PathJoin(base_dir, <<"models", SLASH, "players">>)
    IN  IF models_dir \notin fs.dirs THEN st
        ELSE ScanModelDirs(st, base_dir, Listing(models_dir, backwards), backwards)

\* the scan of base_dir/textures
ScanLooseTextures(st, base_dir, backwards) ==
    LET textures_dir == PathJoin(base_dir, <<"textures">>)
    IN  IF textures_dir \notin fs.dirs THEN st
        ELSE AddTextures(st, RelativeAll(TextureFiles(textures_dir, backwards), base_dir),
                         "disk", None)

\* the skins of every source of the entry
SkinsOfSources(sources_list) == UNION {sources_list[i].skins : i \in DOMAIN sources_list}

\* the turn of the loop over models_tmp.items() if glm_sources were the whole of
\* sources_list
FinishModelUnfiltered(models, name, data, backwards) ==
    LET sources_list == DictValues(data.sources)
    IN  DictSet(models, name,
                [sources |-> sources_list,
                 primary |-> FirstByPriority(sources_list),
                 skins |-> SortedSkins(SkinsOfSources(sources_list), backwards)])

\* one turn of the loop over models_tmp.items()
FinishModel(models, name, data, backwards) ==
    LET sources_list == DictValues(data.sources)
        HasGlm(s) == s.glm # None
        glm_sources == SelectSeq(sources_list, HasGlm)
    IN  IF glm_sources = <<>> THEN models
        ELSE DictSet(models, name,
                     [sources |-> sources_list,
                      primary |-> FirstByPriority(glm_sources),
                      skins |-> SortedSkins(SkinsOfSources(sources_list), backwards)])

RECURSIVE FinishModels(_, _, _)
FinishModels(models, items, backwards) ==
    IF items = <<>> THEN models
    ELSE Only({FinishModels(next, Tail(items), backwards) :
                  next \in {FinishModel(models, Head(items)[1], Head(items)[2], backwards)}})

\* the state of the scan before the first archive
EmptyScan ==
    [models_tmp |-> <<>>, textures_by_rel |-> <<>>, textures_by_stem |-> <<>>,
     gla_index |-> <<>>, raised |-> FALSE]

\* build_index after the loop over the archives: the disk models, the loose
\* textures and the final pass over models_tmp
ScanRest(scanned, base_dir, order) ==
    IF scanned.raised THEN [raised |-> TRUE]
    ELSE Only({[raised |-> FALSE,
                base |-> base_dir,
                models |-> FinishModels(<<>>, disk.models_tmp, order.sets),
                textures_by_rel |-> disk.textures_by_rel,
                textures_by_stem |-> disk.textures_by_stem,
                gla_index |-> disk.gla_index] :
               disk \in {ScanLooseTextures(ScanDiskModels(scanned, base_dir, order.dirs),
                                           base_dir, order.dirs)}})

\* build_index(base_dir) when the directories in order.dirs are listed backwards
\* and sets are iterated backwards when order.sets holds
build_index(base_dir, order) ==
    Only({ScanRest(scanned, base_dir, order) :
          scanned \in {ScanArchives(EmptyScan, SortedArchives(base_dir))}})

(***************************************************************************)
(* The index builder on its own: a tree under BaseDir with up to           *)
(* MaxArchives archives and one of the on-disk trees of DiskMenu, scanned  *)
(* up to MaxBuilds times, each time with the directory listings and the    *)
(* set iterations in any of their orders.                                  *)
(***************************************************************************)
MaxArchives == 2

MaxBuilds == 2

\* the archive of the end-to-end example and its skin text
RebornArchive ==
    [ok |-> TRUE,
     names |-> << <<"models", SLASH, "players", SLASH, "reborn", SLASH, "model", DOT, "glm">>,
                  <<"models", SLASH, "players", SLASH, "reborn", SLASH, "model_default", DOT, "skin">>,
                  <<"models", SLASH, "players", SLASH, "reborn", SLASH, "model_default", DOT, "jpg">>,
                  <<"models", SLASH, "players", SLASH, "_humanoid", SLASH, "_humanoid", DOT, "gla">> >>,
     text |-> <<"head", COMMA, "model_default", DOT, "jpg">>]

\* an archive with names in other cases, a second model file and a model
\* directory without a model file
VariantArchive ==
    [ok |-> TRUE,
     names |-> << <<"models", SLASH, "players", SLASH, "reborn", SLASH, "reborn", DOT, "glm">>,
                  <<"Models", SLASH, "Players", SLASH, "reborn", SLASH, "MODEL", DOT, "GLM">>,
                  <<"models", SLASH, "players", SLASH, "reborn", SLASH, "MODEL_default", DOT, "skin">>,
                  <<"models", SLASH, "players", SLASH, "kyle", SLASH, "a", DOT, "txt">>,
                  <<"textures", SLASH, "x", DOT, "JPG">> >>,
     text |-> <<"head", COMMA, "textures", SLASH, "x">>]

\* a file that is no zip archive
BadArchive == [ok |-> FALSE, names |-> <<>>, text |-> <<>>]

ArchiveMenu == {RebornArchive, VariantArchive, BadArchive}

\* where archives may lie, relative to the scan root
ArchiveSlots ==
    {<<"a", DOT, "pk3">>, <<"assets1", DOT, "pk3">>, <<"sub", SLASH, "Assets1", DOT, "pk3">>,
     <<"z", DOT, "pk3">>}

\* the on-disk trees: files and empty directories, relative to the scan root
DiskMenu ==
    {[files |-> {}, dirs |-> {}],
     [files |-> {<<"models", SLASH, "players", SLASH, "reborn", SLASH, "model", DOT, "glm">>,
                 <<"models", SLASH, "players", SLASH, "reborn", SLASH, "model_red", DOT, "skin">>},
      dirs |-> {}],
     [files |-> {<<"models", SLASH, "players", SLASH, "reborn", SLASH, "a", DOT, "glm">>,
                 <<"models", SLASH, "players", SLASH, "reborn", SLASH, "b", DOT, "glm">>,
                 <<"models", SLASH, "players", SLASH, "reborn", SLASH, "MODEL_default", DOT, "skin">>},
      dirs |-> {}],
     [files |-> {<<"models", SLASH, "players", SLASH, "reborn", SLASH, "model", DOT, "glm">>},
      dirs |-> {<<"models", SLASH, "players", SLASH, "kyle">>}],
     [files |-> {<<"models", SLASH, "players", SLASH, "kyle", SLASH, "b", DOT, "glm">>,
                 <<"models", SLASH, "players", SLASH, "reborn", SLASH, "model", DOT, "glm">>,
                 <<"textures", SLASH, "x", DOT, "png">>},
      dirs |-> {}],
     [files |-> {<<"models", SLASH, "players", SLASH, "reborn", SLASH, "model", DOT, "glm">>},
      dirs |-> {<<"z", DOT, "pk3">>}]}

\* the names a model can have in these trees
ModelNameMenu == {<<"reborn">>, <<"kyle">>}

\* the directories whose listing order can show: those with several entries
Reorderable == {d \in fs.dirs : Cardinality({p \in fs.files \cup fs.dirs : p # d /\ Parent(p) = d}) > 1}

\* the orders a scan can meet
Orders == [dirs : SUBSET Reorderable, sets : BOOLEAN]

InitBuild ==
    /\ os_name = "posix"
    /\ pc = "start"
    /\ inp = [base_dir |-> BaseDir]
    /\ \E disk \in DiskMenu, present \in SUBSET ArchiveSlots :
          /\ Cardinality(present) <= MaxArchives
          /\ \E content \in [{PathJoin(BaseDir, a) : a \in present} -> ArchiveMenu] :
                LET files == {PathJoin(BaseDir, p) : p \in disk.files \cup present}
                    dirs == MkdirAll({BaseDir}, {Parent(p) : p \in files}
                                                   \cup {PathJoin(BaseDir, d) : d \in disk.dirs})
                IN  /\ ValidFs(files, dirs)
                    /\ fs = [files |-> files, dirs |-> dirs]
                    /\ tree = content
    /\ out = [runs |-> <<>>]

\* index = build_index(base_dir)
BuildIndex ==
    /\ Len(out.runs) < MaxBuilds
    /\ \E order \in Orders : \E r \in {build_index(inp.base_dir, order)} :
          /\ out' = [runs |-> Append(out.runs, r)]
          /\ pc' = IF r.raised THEN "raised" ELSE "built"
    /\ UNCHANGED <<os_name, inp, fs, tree>>

NextBuild == BuildIndex

SpecBuild == InitBuild /\ [][NextBuild]_vars

\* the priority classes of the spec: on-disk, the preferred archive name, any
\* other archive
ClassOfArchive(container) ==
    IF lower(PathName(container)) = <<"assets1", DOT, "pk3">> THEN 1 ELSE 2

PriorityClass(src) == IF src.origin = "disk" THEN 0 ELSE ClassOfArchive(src.container)

\* the archive holds a model file of the model: a member .glm below
\* models/players/<name>
ArchiveHasModel(container, name) ==
    /\ OpensAsZip(container)
    /\ \E i \in DOMAIN tree[container].names :
          LET parts == Parts(tree[container].names[i]) IN
          /\ Len(parts) >= 3
          /\ lower(parts[1]) = <<"models">>
          /\ lower(parts[2]) = <<"players">>
          /\ parts[3] = name
          /\ lower(Suffix(tree[container].names[i])) = <<DOT, "glm">>

\* the directory of the model on disk holds a model file
DiskHasModel(base_dir, name) ==
    \E p \in fs.files :
        /\ Parent(p) = PathJoin(base_dir, <<"models", SLASH, "players", SLASH>> \o name)
        /\ Suffix(p) = <<DOT, "glm">>

\* the priority classes of the sources of the tree that have a model file
TreeClasses(base_dir, name) ==
    (IF DiskHasModel(base_dir, name) THEN {0} ELSE {})
        \cup {ClassOfArchive(c) : c \in {a \in Below(fs.files, base_dir) :
                                             /\ Suffix(a) = <<DOT, "pk3">>
                                             /\ ArchiveHasModel(a, name)}}

\* C4: for every model name, the primary source build_index chooses has the
\* least priority class among the sources of the tree that have a model file of
\* that name (on-disk, then the archive named assets1.pk3, then the other
\* archives); with the model on disk the primary is the on-disk source.
C4_PrimaryHasMinimumClass ==
    \A k \in DOMAIN out.runs : ~out.runs[k].raised =>
        \A name \in ModelNameMenu :
            LET classes == TreeClasses(inp.base_dir, name) IN
            classes # {} =>
                /\ name \in DictKeys(out.runs[k].models)
                /\ PriorityClass(DictGet(out.runs[k].models, name).primary) \in classes
                /\ \A c \in classes :
                      PriorityClass(DictGet(out.runs[k].models, name).primary) <= c
                /\ (0 \in classes => DictGet(out.runs[k].models, name).primary.origin = "disk")

\* the model reborn is on disk, in the preferred archive and in an archive scanned
\* before it, and a scan made the on-disk source its primary
C4_Witness ==
    /\ out.runs # <<>>
    /\ ~out.runs[1].raised
    /\ DiskHasModel(inp.base_dir, <<"reborn">>)
    /\ ArchiveHasModel(PathJoin(inp.base_dir, <<"a", DOT, "pk3">>), <<"reborn">>)
    /\ ArchiveHasModel(PathJoin(inp.base_dir, <<"assets1", DOT, "pk3">>), <<"reborn">>)
    /\ Len(DictGet(out.runs[1].models, <<"reborn">>).sources) = 3
    /\ DictGet(out.runs[1].models, <<"reborn">>).primary.origin = "disk"

\* what C10 compares: the model names, and for each the priority class of the
\* primary source and the set of skin files
Outline(index) ==
    {<<index.models[i][1], PriorityClass(index.models[i][2].primary),
       {index.models[i][2].skins[j] : j \in DOMAIN index.models[i][2].skins}>> :
        i \in DOMAIN index.models}

\* C10: the scans of one unchanged tree agree on the model names, on the priority
\* class of each primary source and on each set of skin files, whatever the
\* orders the file system and the sets hand their entries out in.
C10_SameOutline ==
    \A k, l \in DOMAIN out.runs :
        /\ out.runs[k].raised = out.runs[l].raised
        /\ ~out.runs[k].raised => Outline(out.runs[k]) = Outline(out.runs[l])

\* two scans of a tree with models met its entries in different orders and
\* built different indexes
C10_Witness ==
    /\ Len(out.runs) >= 2
    /\ ~out.runs[1].raised
    /\ out.runs[1] # out.runs[2]
    /\ out.runs[1].models # <<>>

\* C12: whatever archives of the tree cannot be opened or read, build_index
\* returns an index, and that index is the one the scan builds from the readable
\* archives and the on-disk trees alone, as if the unreadable archives were
\* absent.
C12_UnreadableSkipped ==
    \A k \in DOMAIN out.runs :
        /\ ~out.runs[k].raised
        /\ \E order \in Orders :
              out.runs[k] = ScanRest(ScanArchives(EmptyScan,
                                                  SelectSeq(SortedArchives(inp.base_dir), OpensAsZip)),
                                     inp.base_dir, order)

\* the archive holds a member that build_index files under the model: a member
\* below models/players/<name> that is no texture
ArchiveHasMember(container, name) ==
    /\ OpensAsZip(container)
    /\ \E i \in DOMAIN tree[container].names :
          LET parts == Parts(tree[container].names[i]) IN
          /\ ~ZipIsDir(tree[container].names[i])
          /\ ~InTextureExts(lower(Suffix(tree[container].names[i])))
          /\ Len(parts) >= 3
          /\ lower(parts[1]) = <<"models">>
          /\ lower(parts[2]) = <<"players">>
          /\ parts[3] = name

\* C17 as stated: in every index build_index returns, every source kept in the
\* source list of a model entry has a model file, the primary of the entry is one
\* of its sources, and a model name is in the index exactly when some source of
\* the tree has a model file of that name.
C17_SourcesHaveModelFile ==
    \A k \in DOMAIN out.runs : ~out.runs[k].raised =>
        /\ \A name \in ModelNameMenu :
              name \in DictKeys(out.runs[k].models) <=> TreeClasses(inp.base_dir, name) # {}
        /\ \A i \in DOMAIN out.runs[k].models :
              LET entry == out.runs[k].models[i][2] IN
              /\ \A j \in DOMAIN entry.sources : entry.sources[j].glm # None
              /\ \E j \in DOMAIN entry.sources : entry.sources[j] = entry.primary

\* C17 as amended: in every index build_index returns, the source list of a model
\* entry holds every source found for the name, the archives without a model file
\* of it included; the primary of the entry is one of its sources and has a model
\* file; and a model name is in the index exactly when some source of the tree has
\* a model file of that name.
C17_AllSourcesKept ==
    \A k \in DOMAIN out.runs : ~out.runs[k].raised =>
        /\ \A name \in ModelNameMenu :
              name \in DictKeys(out.runs[k].models) <=> TreeClasses(inp.base_dir, name) # {}
        /\ \A i \in DOMAIN out.runs[k].models :
              LET name == out.runs[k].models[i][1]
                  entry == out.runs[k].models[i][2]
              IN  /\ entry.primary.glm # None
                  /\ \E j \in DOMAIN entry.sources : entry.sources[j] = entry.primary
                  /\ {entry.sources[j].container :
                          j \in {l \in DOMAIN entry.sources : entry.sources[l].origin = "pk3"}}
                         = {a \in DOMAIN tree : ArchiveHasMember(a, name)}
                  /\ (\E j \in DOMAIN entry.sources : entry.sources[j].origin = "disk")
                         <=> DiskHasModel(inp.base_dir, name)

\* a scan kept, in the entry of a model, a source that has no model file
C17_Witness ==
    \E k \in DOMAIN out.runs :
        /\ ~out.runs[k].raised
        /\ \E i \in DOMAIN out.runs[k].models :
              \E j \in DOMAIN out.runs[k].models[i][2].sources :
                  out.runs[k].models[i][2].sources[j].glm = None

\* C18: in every index build_index returns, the skin list of each model entry
\* holds exactly the skin paths of the sources of the entry, no two of its entries
\* have the same normalised path, and it is in ascending order of the lower-cased
\* path.
C18_SkinListDeduplicated ==
    \A k \in DOMAIN out.runs : ~out.runs[k].raised =>
        \A i \in DOMAIN out.runs[k].models :
            LET entry == out.runs[k].models[i][2] IN
            /\ {entry.skins[a] : a \in DOMAIN entry.skins} = SkinsOfSources(entry.sources)
            /\ \A a, b \in DOMAIN entry.skins :
                  a < b => /\ normalize_rel(entry.skins[a]) # normalize_rel(entry.skins[b])
                           /\ ~StrLess(lower(entry.skins[b]), lower(entry.skins[a]))

(***************************************************************************)
(* index.clear_index and index.ensure_index: PK3_INDEX_CACHE is <<>> for   *)
(* None and <<index>> for an index.                                        *)
(***************************************************************************)
clear_index == <<>>

\* ensure_index(base_dir) with PK3_INDEX_CACHE = cache: the cache it leaves, what
\* it returns, whether it called build_index and whether that raised
ensure_index(cache, base_dir, order) ==
    IF base_dir \notin fs.files \cup fs.dirs
    THEN [cache |-> <<>>, ret |-> <<>>, built |-> FALSE, raised |-> FALSE]
    ELSE IF cache # <<>> /\ cache[1].base = base_dir
    THEN [cache |-> cache, ret |-> cache, built |-> FALSE, raised |-> FALSE]
    ELSE Only({IF index.raised
               THEN [cache |-> cache, ret |-> <<>>, built |-> TRUE, raised |-> TRUE]
               ELSE [cache |-> <<index>>, ret |-> <<index>>, built |-> TRUE, raised |-> FALSE] :
               index \in {build_index(base_dir, order)}})

(***************************************************************************)
(* The index cache over time: up to MaxOps calls of ensure_index and       *)
(* clear_index on the roots of RootMenu, while the trees below the roots   *)
(* change between the calls.                                               *)
(***************************************************************************)
MaxOps == 4

OtherDir == <<SLASH, "h">>

\* a root that never exists
MissingDir == <<SLASH, "n">>

RootMenu == {BaseDir, OtherDir, MissingDir}

\* a tree: BaseDir holds the archive of the example, with or without the model
\* kyle on disk; OtherDir is missing, empty, holds an archive d.pk3, or holds a
\* directory named d.pk3
TreeOf(kyle, other) ==
    LET files == {PathJoin(BaseDir, <<"a", DOT, "pk3">>)}
                   \cup (IF kyle
                         THEN {PathJoin(BaseDir, <<"models", SLASH, "players", SLASH, "kyle",
                                                   SLASH, "model", DOT, "glm">>)}
                         ELSE {})
                   \cup (IF other = "archive" THEN {PathJoin(OtherDir, <<"d", DOT, "pk3">>)}
                         ELSE {})
        wanted == {Parent(p) : p \in files}
                    \cup (IF other = "empty" THEN {OtherDir} ELSE {})
                    \cup (IF other = "directory" THEN {PathJoin(OtherDir, <<"d", DOT, "pk3">>)}
                          ELSE {})
    IN  [fs |-> [files |-> files, dirs |-> MkdirAll({BaseDir}, wanted)],
         tree |-> [c \in {p \in files : Suffix(p) = <<DOT, "pk3">>} |->
                      IF c = PathJoin(BaseDir, <<"a", DOT, "pk3">>) THEN RebornArchive
                      ELSE VariantArchive]]

TreeMenu == {TreeOf(kyle, other) : kyle \in BOOLEAN,
                                   other \in {"missing", "empty", "archive", "directory"}}

InitEnsure ==
    /\ os_name = "posix"
    /\ pc = "idle"
    /\ inp = NoValue
    /\ \E t \in TreeMenu : fs = t.fs /\ tree = t.tree
    /\ out = [cache |-> <<>>, calls |-> 0, op |-> "none", root |-> None, ret |-> <<>>,
              built |-> FALSE, raised |-> FALSE, returned_root |-> None]

\* index = ensure_index(base_dir)
EnsureIndex ==
    /\ out.calls < MaxOps
    /\ \E base_dir \in RootMenu, order \in Orders :
          \E r \in {ensure_index(out.cache, base_dir, order)} :
             out' = [cache |-> r.cache, calls |-> out.calls + 1, op |-> "ensure_index",
                     root |-> base_dir, ret |-> r.ret, built |-> r.built, raised |-> r.raised,
                     returned_root |-> IF r.ret # <<>> THEN base_dir ELSE out.returned_root]
    /\ UNCHANGED <<os_name, pc, inp, fs, tree>>

\* clear_index()
ClearIndex ==
    /\ out.calls < MaxOps
    /\ out' = [out EXCEPT !.cache = clear_index, !.calls = @ + 1, !.op = "clear_index",
                          !.root = None, !.ret = <<>>, !.built = FALSE, !.raised = FALSE]
    /\ UNCHANGED <<os_name, pc, inp, fs, tree>>

\* the trees change between two calls
ChangeTree ==
    /\ \E t \in TreeMenu :
          /\ t.fs # fs
          /\ fs' = t.fs
          /\ tree' = t.tree
    /\ UNCHANGED <<os_name, pc, inp, out>>

NextEnsure == EnsureIndex \/ ClearIndex \/ ChangeTree

SpecEnsure == InitEnsure /\ [][NextEnsure]_vars

\* C5: a call of ensure_index on an existing root returns the index of the call
\* before it without a scan when that call was ensure_index on the same root and
\* returned an index, and runs build_index in every other case (after
\* clear_index, after ensure_index on another or on a missing root, at the first
\* call); the cached index, if any, has the root of the last call that returned
\* an index as its base.
C5_Lifecycle ==
    /\ [][(/\ out'.calls = out.calls + 1
           /\ out'.op = "ensure_index"
           /\ out'.root \in fs.files \cup fs.dirs) =>
              IF out.op = "ensure_index" /\ out.root = out'.root /\ out.ret # <<>>
              THEN ~out'.built /\ out'.ret = out.ret
              ELSE out'.built]_vars
    /\ [](out.cache # <<>> => out.cache[1].base = out.returned_root)

(***************************************************************************)
(* The scan root: build_index and ensure_index called on any root of       *)
(* RootMenu, present or not, while the trees change between the calls.     *)
(* out.existed tells whether the root existed when the call was made.      *)
(***************************************************************************)
InitRoot ==
    /\ os_name = "posix"
    /\ pc = "idle"
    /\ inp = NoValue
    /\ \E t \in TreeMenu : fs = t.fs /\ tree = t.tree
    /\ out = [cache |-> <<>>, op |-> "none", root |-> None, existed |-> FALSE,
              raised |-> FALSE, ret |-> <<>>]

\* index = build_index(base_dir)
BuildRoot ==
    /\ \E base_dir \in RootMenu, order \in Orders :
          \E r \in {build_index(base_dir, order)} :
             out' = [cache |-> out.cache, op |-> "build_index", root |-> base_dir,
                     existed |-> base_dir \in fs.files \cup fs.dirs,
                     raised |-> r.raised, ret |-> IF r.raised THEN <<>> ELSE <<r>>]
    /\ UNCHANGED <<os_name, pc, inp, fs, tree>>

\* index = ensure_index(base_dir)
EnsureRoot ==
    /\ \E base_dir \in RootMenu, order \in Orders :
          \E r \in {ensure_index(out.cache, base_dir, order)} :
             out' = [cache |-> r.cache, op |-> "ensure_index", root |-> base_dir,
                     existed |-> base_dir \in fs.files \cup fs.dirs,
                     raised |-> r.raised, ret |-> r.ret]
    /\ UNCHANGED <<os_name, pc, inp, fs, tree>>

NextRoot == BuildRoot \/ EnsureRoot \/ ChangeTree

SpecRoot == InitRoot /\ [][NextRoot]_vars

\* C11: a call of build_index (directly, or through ensure_index) on a scan root
\* that does not exist fails with an exception; it returns neither an index nor
\* None.
C11_MissingRootFails ==
    (out.op \in {"build_index", "ensure_index"} /\ ~out.existed) =>
        out.raised /\ out.ret = <<>>

(***************************************************************************)
(* skin.resolve_texture, skin.resolve_gla, skin.find_gla,                  *)
(* skin.find_skin_source, skin.read_text_from_source and                   *)
(* skin.collect_assets_for_skin. An Optional is <<>> for None and <<v>>    *)
(* for a value.                                                            *)
(***************************************************************************)
\* Path.with_suffix(ext); None for a path without a name, where it raises
\* ValueError
with_suffix(path, ext) ==
    IF PathName(path) = <<>> THEN None
    ELSE SubSeq(path, 1, Len(path) - Len(Suffix(path))) \o ext

\* the first index of the sequence that satisfies the test, for a non-empty set
First(indexes) == CHOOSE i \in indexes : \A j \in indexes : i <= j

\* choose(fs_list) with the loop over the on-disk candidates ahead of the loop over
\* the candidates of the preferred archive
ChooseDiskFirst(fs_list, preferred) ==
    LET same == {i \in DOMAIN fs_list :
                    /\ preferred # <<>>
                    /\ preferred[1].container # None
                    /\ fs_list[i].container = preferred[1].container}
        disk == {i \in DOMAIN fs_list : fs_list[i].origin = "disk"}
    IN  IF disk # {} THEN fs_list[First(disk)]
        ELSE IF same # {} THEN fs_list[First(same)]
        ELSE fs_list[1]

\* choose(fs_list) of resolve_texture
choose(fs_list, preferred) ==
    LET same == {i \in DOMAIN fs_list :
                    /\ preferred # <<>>
                    /\ preferred[1].container # None
                    /\ fs_list[i].container = preferred[1].container}
        disk == {i \in DOMAIN fs_list : fs_list[i].origin = "disk"}
    IN  IF same # {} THEN fs_list[First(same)]
        ELSE IF disk # {} THEN fs_list[First(disk)]
        ELSE fs_list[1]

\* the extensions of TEXTURE_EXTS under which the reference is a key of
\* textures_by_rel
ExtHits(index, tex_path) ==
    {i \in DOMAIN TEXTURE_EXTS :
        normalize_rel(with_suffix(tex_path, TEXTURE_EXTS[i])) \in DictKeys(index.textures_by_rel)}

\* resolve_texture without the lookup by stem
ResolveTextureExactOnly(index, tex_entry, preferred) ==
    LET tex_path == as_posix(tex_entry)
        hits == ExtHits(index, tex_path)
    IN  IF PathName(tex_path) = <<>> THEN [raised |-> TRUE, found |-> <<>>]
        ELSE IF hits # {}
        THEN [raised |-> FALSE,
              found |-> <<choose(DictGet(index.textures_by_rel,
                                         normalize_rel(with_suffix(tex_path,
                                                                   TEXTURE_EXTS[First(hits)]))),
                                 preferred)>>]
        ELSE [raised |-> FALSE, found |-> <<>>]

\* resolve_texture with the lookup by stem ahead of the lookup by path
ResolveTextureStemFirst(index, tex_entry, preferred) ==
    LET tex_path == as_posix(tex_entry)
        stem == lower(Stem(tex_path))
    IN  IF PathName(tex_path) # <<>> /\ stem \in DictKeys(index.textures_by_stem)
        THEN [raised |-> FALSE,
              found |-> <<choose(DictGet(index.textures_by_stem, stem), preferred)>>]
        ELSE ResolveTextureExactOnly(index, tex_entry, preferred)

\* resolve_texture(index, tex_entry, preferred): found holds the FileSource of the
\* pair it returns
resolve_texture(index, tex_entry, preferred) ==
    LET tex_path == as_posix(tex_entry)
        hits == ExtHits(index, tex_path)
        stem == lower(Stem(tex_path))
    IN  IF PathName(tex_path) = <<>> THEN [raised |-> TRUE, found |-> <<>>]
        ELSE IF hits # {}
        THEN [raised |-> FALSE,
              found |-> <<choose(DictGet(index.textures_by_rel,
                                         normalize_rel(with_suffix(tex_path,
                                                                   TEXTURE_EXTS[First(hits)]))),
                                 preferred)>>]
        ELSE IF stem \in DictKeys(index.textures_by_stem)
        THEN [raised |-> FALSE,
              found |-> <<choose(DictGet(index.textures_by_stem, stem), preferred)>>]
        ELSE [raised |-> FALSE, found |-> <<>>]

resolve_gla(index, rel_path) ==
    IF normalize_rel(rel_path) \in DictKeys(index.gla_index)
    THEN <<DictGet(index.gla_index, normalize_rel(rel_path))[1]>>
    ELSE <<>>

\* the first hit of resolve_gla over the paths
RECURSIVE FirstGla(_, _)
FirstGla(index, paths) ==
    IF paths = <<>> THEN <<>>
    ELSE IF resolve_gla(index, Head(paths)) # <<>> THEN resolve_gla(index, Head(paths))
    ELSE FirstGla(index, Tail(paths))

\* the glas of the sources, source after source, each set in its iteration order
RECURSIVE GlasOfSources(_, _)
GlasOfSources(sources, backwards) ==
    IF sources = <<>> THEN <<>>
    ELSE Iterate(Head(sources).glas, backwards) \o GlasOfSources(Tail(sources), backwards)

find_gla(index, model_name, entry, backwards) ==
    FirstGla(index,
             GlasOfSources(entry.sources, backwards)
                 \o <<as_posix(<<"models", SLASH, "players", SLASH>> \o model_name
                                   \o <<SLASH>> \o model_name \o <<DOT, "gla">>),
                      as_posix(<<"models", SLASH, "players", SLASH>> \o model_name
                                   \o <<SLASH, "model", DOT, "gla">>),
                      <<"models", SLASH, "players", SLASH, "_humanoid", SLASH, "_humanoid",
                        DOT, "gla">> >>)

\* the skins of the sources as FileSources, in the order find_skin_source meets
\* them
RECURSIVE SkinsOfSourcesInOrder(_, _)
SkinsOfSourcesInOrder(sources, backwards) ==
    IF sources = <<>> THEN <<>>
    ELSE LET src == Head(sources)
             skins == Iterate(src.skins, backwards)
         IN  [i \in DOMAIN skins |-> FileSource(src.origin, src.container, skins[i])]
                 \o SkinsOfSourcesInOrder(Tail(sources), backwards)

find_skin_source(entry, skin_rel, backwards) ==
    LET candidates == SkinsOfSourcesInOrder(entry.sources, backwards)
        hits == {i \in DOMAIN candidates :
                    normalize_rel(candidates[i].rel_path) = normalize_rel(skin_rel)}
    IN  IF hits = {} THEN <<>> ELSE <<candidates[First(hits)]>>

\* read_text_from_source: the text of the file, or raised when the file, the
\* archive or the member is not there; fs.text and tree[container].text hold
\* the texts of the skin files
read_text_from_source(source, base_dir) ==
    IF source.origin = "disk"
    THEN IF PathJoin(base_dir, source.rel_path) \notin fs.files
         THEN [raised |-> TRUE, text |-> <<>>]
         ELSE [raised |-> FALSE,
               text |-> IF PathJoin(base_dir, source.rel_path) \in DOMAIN fs.text
                        THEN fs.text[PathJoin(base_dir, source.rel_path)] ELSE <<>>]
    ELSE IF ~OpensAsZip(source.container) THEN [raised |-> TRUE, text |-> <<>>]
    ELSE IF \A i \in DOMAIN tree[source.container].names :
               tree[source.container].names[i] # as_posix(source.rel_path)
    THEN [raised |-> TRUE, text |-> <<>>]
    ELSE [raised |-> FALSE, text |-> tree[source.container].text]

\* one turn of the loop over skin_map.values(); acc = [textures, missing,
\* replacements, raised]
CollectTexture(acc, index, tex, primary) ==
    Only({IF resolved.raised THEN [acc EXCEPT !.raised = TRUE]
          ELSE IF resolved.found = <<>> THEN [acc EXCEPT !.missing = Append(@, tex)]
          ELSE [acc EXCEPT !.textures = Append(@, <<resolved.found[1], resolved.found[1].rel_path>>),
                           !.replacements =
                               IF as_posix(resolved.found[1].rel_path) # tex
                               THEN DictSet(@, tex, as_posix(resolved.found[1].rel_path))
                               ELSE @] :
          resolved \in {resolve_texture(index, tex, <<primary>>)}})

RECURSIVE CollectTextures(_, _, _, _)
CollectTextures(acc, index, texs, primary) ==
    IF texs = <<>> \/ acc.raised THEN acc
    ELSE Only({CollectTextures(next, index, Tail(texs), primary) :
                  next \in {CollectTexture(acc, index, Head(texs), primary)}})

\* the result of collect_assets_for_skin once the skin is found and read
CollectFrom(index, model_name, skin_rel, entry, skin_src, skin_text, backwards) ==
    Only({IF acc.raised THEN [raised |-> TRUE, error |-> "ValueError"]
          ELSE [raised |-> FALSE,
                assets |-> << <<glm_src, glm_src.rel_path>>, <<skin_src, skin_rel>> >>
                               \o (IF gla_src = <<>> THEN <<>>
                                   ELSE << <<gla_src[1], gla_src[1].rel_path>> >>)
                               \o acc.textures,
                missing |-> acc.missing,
                replacements |-> acc.replacements] :
          acc \in {CollectTextures([textures |-> <<>>, missing |-> <<>>,
                                    replacements |-> <<>>, raised |-> FALSE],
                                   index, DictValues(parse_skin_text(skin_text)),
                                   entry.primary)},
          glm_src \in {FileSource(entry.primary.origin, entry.primary.container,
                                  entry.primary.glm)},
          gla_src \in {find_gla(index, model_name, entry, backwards)}})

\* a resolver that answers an unknown model or skin with an empty result
\* instead of an error
CollectWhatIsThere(index, base_dir, model_name, skin_rel, backwards) ==
    IF \/ model_name \notin DictKeys(index.models)
       \/ find_skin_source(DictGet(index.models, model_name), skin_rel, backwards) = <<>>
    THEN [raised |-> FALSE, assets |-> <<>>, missing |-> <<>>, replacements |-> <<>>]
    ELSE Only({IF read.raised THEN [raised |-> TRUE, error |-> "read"]
               ELSE CollectFrom(index, model_name, skin_rel, DictGet(index.models, model_name),
                                skin_src[1], read.text, backwards) :
               skin_src \in {find_skin_source(DictGet(index.models, model_name), skin_rel,
                                              backwards)},
               read \in {read_text_from_source(
                             find_skin_source(DictGet(index.models, model_name), skin_rel,
                                              backwards)[1], base_dir)}})

\* collect_assets_for_skin(index, base_dir, model_name, skin_rel), sets iterated
\* backwards or not
collect_assets_for_skin(index, base_dir, model_name, skin_rel, backwards) ==
    IF model_name \notin DictKeys(index.models)
    THEN [raised |-> TRUE, error |-> "Model not found"]
    ELSE Only({IF skin_src = <<>> THEN [raised |-> TRUE, error |-> "Skin file not found"]
               ELSE Only({IF read.raised THEN [raised |-> TRUE, error |-> "read"]
                          ELSE CollectFrom(index, model_name, skin_rel, entry, skin_src[1],
                                           read.text, backwards) :
                          read \in {read_text_from_source(skin_src[1], base_dir)}}) :
               entry \in {DictGet(index.models, model_name)},
               skin_src \in {find_skin_source(DictGet(index.models, model_name), skin_rel,
                                              backwards)}})

(***************************************************************************)
(* The resolver on its own: the archive a.pk3 holds the model reborn, its  *)
(* skin model_default.skin with one of the texts of SkinTextMenu, the      *)
(* shared skeleton and up to MaxTextures textures of TextureMemberMenu;    *)
(* the tree may hold textures/x.png on disk. The tree is indexed, then     *)
(* references and skins are resolved against the index.                    *)
(***************************************************************************)
MaxTextures == 2

APk3 == PathJoin(BaseDir, <<"a", DOT, "pk3">>)

RebornSkin == <<"models", SLASH, "players", SLASH, "reborn", SLASH, "model_default", DOT, "skin">>

RebornTexture == <<"models", SLASH, "players", SLASH, "reborn", SLASH, "model_default", DOT, "jpg">>

\* the members of a.pk3 that are no textures
ModelMembers ==
    << <<"models", SLASH, "players", SLASH, "reborn", SLASH, "model", DOT, "glm">>,
       RebornSkin,
       <<"models", SLASH, "players", SLASH, "_humanoid", SLASH, "_humanoid", DOT, "gla">> >>

TextureMemberMenu ==
    {RebornTexture,
     <<"anything", SLASH, "x", DOT, "png">>,
     <<"textures", SLASH, "x", DOT, "tga">>,
     <<"textures", SLASH, "X", DOT, "JPG">>}

DiskTextureMenu == {{}, {<<"textures", SLASH, "x", DOT, "png">>}}

\* the texture references of the skin texts
RefMenu ==
    {<<"model_default", DOT, "jpg">>,
     RebornTexture,
     <<"textures", SLASH, "x">>,
     <<"textures", SLASH, "x", DOT, "png">>,
     <<"textures", SLASH, "y">>,
     <<>>}

SkinTextMenu ==
    {<<"head", COMMA>> \o ref : ref \in RefMenu}
        \cup {<<"head", COMMA, "textures", SLASH, "x", NL, "torso", COMMA, "textures", SLASH, "y">>,
              <<"head", COMMA, "model_default", DOT, "jpg", NL,
                "torso", COMMA, "textures", SLASH, "x", NL>>,
              <<"head", COMMA, "textures", SLASH, "x", NL, "torso", COMMA, "textures", SLASH, "x">>,
              <<"head", COMMA, "textures", SLASH, "y", NL, "torso", COMMA, "textures", SLASH, "y">>}

\* the skin paths a caller asks for
SkinRelMenu ==
    {RebornSkin,
     <<"Models", SLASH, "Players", SLASH, "reborn", SLASH, "MODEL_default", DOT, "skin">>,
     <<"models", SLASH, "players", SLASH, "reborn", SLASH, "model_red", DOT, "skin">>}

InitResolve ==
    /\ os_name = "posix"
    /\ pc = "start"
    /\ inp = [base_dir |-> BaseDir]
    /\ \E textures \in SUBSET TextureMemberMenu, disk \in DiskTextureMenu, text \in SkinTextMenu :
          /\ Cardinality(textures) <= MaxTextures
          /\ tree = [c \in {APk3} |->
                        [ok |-> TRUE, names |-> ModelMembers \o SetOrder(textures), text |-> text]]
          /\ fs = [files |-> {APk3} \cup {PathJoin(BaseDir, p) : p \in disk},
                   dirs |-> MkdirAll({BaseDir}, {Parent(PathJoin(BaseDir, p)) : p \in disk}),
                   text |-> <<>>]
    /\ out = [index |-> <<>>, op |-> "none", args |-> <<>>, result |-> <<>>]

\* index = ensure_index(base_dir)
IndexTree ==
    /\ pc = "start"
    /\ \E order \in Orders : \E r \in {ensure_index(out.index, inp.base_dir, order)} :
          /\ ~r.raised
          /\ out' = [out EXCEPT !.index = r.cache]
    /\ pc' = "indexed"
    /\ UNCHANGED <<os_name, inp, fs, tree>>

\* resolve_texture(index, tex_entry, preferred)
ResolveTexture ==
    /\ pc = "indexed"
    /\ \E tex_entry \in RefMenu,
          preferred \in {<<>>} \cup {<<out.index[1].models[i][2].primary>> :
                                        i \in DOMAIN out.index[1].models} :
          \E r \in {resolve_texture(out.index[1], tex_entry, preferred)} :
             out' = [out EXCEPT !.op = "resolve_texture", !.args = <<tex_entry, preferred>>,
                                !.result = r]
    /\ UNCHANGED <<os_name, pc, inp, fs, tree>>

\* collect_assets_for_skin(index, base_dir, model_name, skin_rel)
CollectAssets ==
    /\ pc = "indexed"
    /\ \E model_name \in ModelNameMenu, skin_rel \in SkinRelMenu, backwards \in BOOLEAN :
          \E r \in {collect_assets_for_skin(out.index[1], inp.base_dir, model_name, skin_rel,
                                            backwards)} :
             out' = [out EXCEPT !.op = "collect_assets_for_skin",
                                !.args = <<model_name, skin_rel>>, !.result = r]
    /\ UNCHANGED <<os_name, pc, inp, fs, tree>>

NextResolve == IndexTree \/ ResolveTexture \/ CollectAssets

SpecResolve == InitResolve /\ [][NextResolve]_vars

\* the tree of the end-to-end example: one archive with the model, the skin
\* "head,model_default.jpg", its texture and the shared skeleton
ExampleTree ==
    /\ fs.files = {APk3}
    /\ {tree[APk3].names[i] : i \in DOMAIN tree[APk3].names}
           = {RebornArchive.names[i] : i \in DOMAIN RebornArchive.names}
    /\ tree[APk3].text = RebornArchive.text

\* the skin of the example was resolved for the model reborn
ExampleCollected ==
    /\ ExampleTree
    /\ out.op = "collect_assets_for_skin"
    /\ out.args = << <<"reborn">>, RebornSkin >>

\* the asset list of the example: model, skin, skeleton, texture
ExampleAssets ==
    << <<FileSource("pk3", APk3, ModelMembers[1]), ModelMembers[1]>>,
       <<FileSource("pk3", APk3, RebornSkin), RebornSkin>>,
       <<FileSource("pk3", APk3, ModelMembers[3]), ModelMembers[3]>>,
       <<FileSource("pk3", APk3, RebornTexture), RebornTexture>> >>

\* C3 as stated: the example resolves to four assets, no missing reference and
\* no rename pair.
C3_ExampleNoRename ==
    ExampleCollected =>
        /\ ~out.result.raised
        /\ out.result.assets = ExampleAssets
        /\ out.result.missing = <<>>
        /\ out.result.replacements = <<>>

\* C3 as amended: the example resolves to four assets (model, skin, skeleton,
\* texture), no missing reference and the one rename pair from the reference
\* model_default.jpg to models/players/reborn/model_default.jpg.
C3_ExampleOneRename ==
    ExampleCollected =>
        /\ ~out.result.raised
        /\ out.result.assets = ExampleAssets
        /\ out.result.missing = <<>>
        /\ out.result.replacements = << << <<"model_default", DOT, "jpg">>, RebornTexture >> >>

C3_Witness ==
    /\ ExampleCollected
    /\ ~out.result.raised
    /\ Len(out.result.assets) = 4

\* every FileSource of the lists of a table
Listed(table) == UNION {{table[i][2][j] : j \in DOMAIN table[i][2]} : i \in DOMAIN table}

\* the indexed textures whose normalised path is the reference under some
\* supported extension
ExactMatches(index, tex) ==
    {f \in Listed(index.textures_by_rel) :
        /\ PathName(as_posix(tex)) # <<>>
        /\ \E i \in DOMAIN TEXTURE_EXTS :
              normalize_rel(f.rel_path) = normalize_rel(with_suffix(as_posix(tex), TEXTURE_EXTS[i]))}

\* the indexed textures whose lower-cased stem is the one of the reference
StemMatches(index, tex) ==
    {f \in Listed(index.textures_by_stem) :
        PathName(as_posix(tex)) # <<>> /\ lower(Stem(f.rel_path)) = lower(Stem(as_posix(tex)))}

\* the references of the skin a call of collect_assets_for_skin read
ReferencesRead == {parse_skin_text(tree[APk3].text)[i][2] :
                      i \in DOMAIN parse_skin_text(tree[APk3].text)}

\* C8: a reference without a match by path under any supported extension whose
\* stem is in the stem table resolves to a file with that stem, and
\* collect_assets_for_skin puts that file in the asset list and records the
\* rename pair from the reference to its relative path; a reference with a match
\* by path resolves to a file matched by path.
C8_StemFallback ==
    /\ out.op = "resolve_texture" =>
          LET tex == out.args[1]
              exact == ExactMatches(out.index[1], tex)
              stems == StemMatches(out.index[1], tex)
          IN  /\ (exact = {} /\ stems # {}) =>
                    /\ ~out.result.raised
                    /\ out.result.found # <<>>
                    /\ out.result.found[1] \in stems
              /\ exact # {} =>
                    /\ ~out.result.raised
                    /\ out.result.found # <<>>
                    /\ out.result.found[1] \in exact
    /\ (out.op = "collect_assets_for_skin" /\ ~out.result.raised) =>
          \A tex \in ReferencesRead :
              LET exact == ExactMatches(out.index[1], tex)
                  stems == StemMatches(out.index[1], tex)
              IN  /\ (exact = {} /\ stems # {}) =>
                        \E f \in stems :
                            /\ \E k \in DOMAIN out.result.assets :
                                  out.result.assets[k] = <<f, f.rel_path>>
                            /\ <<tex, f.rel_path>> \in DictItems(out.result.replacements)
                  /\ exact # {} =>
                        /\ \E f \in exact : \E k \in DOMAIN out.result.assets :
                              out.result.assets[k] = <<f, f.rel_path>>
                        /\ \A pair \in DictItems(out.result.replacements) :
                              pair[1] = tex => \E f \in exact : pair[2] = f.rel_path

\* the reference textures/x had no match by path, was resolved by stem to
\* anything/x.png and recorded as a rename pair
C8_Witness ==
    /\ out.op = "collect_assets_for_skin"
    /\ ~out.result.raised
    /\ ExactMatches(out.index[1], <<"textures", SLASH, "x">>) = {}
    /\ << <<"textures", SLASH, "x">>, <<"anything", SLASH, "x", DOT, "png">> >>
           \in DictItems(out.result.replacements)

\* the number of entries of the sequence that equal the value
Count(seq, v) == Cardinality({i \in DOMAIN seq : seq[i] = v})

\* the texture entries of an asset list: what follows the model, the skin and the
\* skeleton
TextureEntries(assets) ==
    LET IsOther(asset) == ~InTextureExts(lower(Suffix(asset[2])))
    IN  SubSeq(assets, Len(SelectSeq(assets, IsOther)) + 1, Len(assets))

\* C16: each distinct reference of the binding map is resolved once: it
\* contributes one texture entry to the asset list or one entry to the missing
\* list, never both, however many parts use it.
C16_OncePerReference ==
    (out.op = "collect_assets_for_skin" /\ ~out.result.raised) =>
        /\ Len(TextureEntries(out.result.assets)) + Len(out.result.missing)
               = Cardinality(ReferencesRead)
        /\ \A tex \in ReferencesRead : Count(out.result.missing, tex) <= 1
        /\ \A j \in DOMAIN out.result.missing : out.result.missing[j] \in ReferencesRead
(***************************************************************************)
(* The choice among several sources of one file: the archives a.pk3,       *)
(* assets1.pk3 and z.pk3 each hold the model reborn with its skin, the     *)
(* texture and the shared skeleton, the model alone, the texture and the   *)
(* skeleton alone, or are absent; the disk holds one of the trees of       *)
(* ChoiceDiskMenu. The tree is indexed, then references and skins are      *)
(* resolved against the index.                                             *)
(***************************************************************************)
HumanoidGla == <<"models", SLASH, "players", SLASH, "_humanoid", SLASH, "_humanoid", DOT, "gla">>

ChoiceSlots == {<<"a", DOT, "pk3">>, <<"assets1", DOT, "pk3">>, <<"z", DOT, "pk3">>}

\* what an archive of the tree holds
ChoiceArchiveMenu ==
    {RebornArchive,
     [ok |-> TRUE, names |-> <<ModelMembers[1], RebornSkin>>, text |-> RebornArchive.text],
     [ok |-> TRUE, names |-> <<RebornTexture, HumanoidGla>>, text |-> <<>>]}

\* the files on disk, relative to the scan root
ChoiceDiskMenu ==
    {{},
     {<<"textures", SLASH, "model_default", DOT, "jpg">>},
     {<<"models", SLASH, "players", SLASH, "reborn", SLASH, "model", DOT, "glm">>,
      RebornTexture,
      <<"textures", SLASH, "model_default", DOT, "jpg">>},
     {<<"models", SLASH, "players", SLASH, "_humanoid", SLASH, "model", DOT, "glm">>,
      HumanoidGla,
      <<"textures", SLASH, "model_default", DOT, "jpg">>}}

InitChoose ==
    /\ os_name = "posix"
    /\ pc = "start"
    /\ inp = [base_dir |-> BaseDir]
    /\ \E present \in SUBSET ChoiceSlots, disk \in ChoiceDiskMenu :
          \E content \in [{PathJoin(BaseDir, a) : a \in present} -> ChoiceArchiveMenu] :
              LET files == {PathJoin(BaseDir, p) : p \in disk \cup present}
              IN  /\ tree = content
                  /\ fs = [files |-> files,
                           dirs |-> MkdirAll({BaseDir}, {Parent(p) : p \in files}),
                           text |-> <<>>]
    /\ out = [index |-> <<>>, op |-> "none", args |-> <<>>, result |-> <<>>]

SpecChoose == InitChoose /\ [][NextResolve]_vars

\* the table entry a reference matches: the list under the first extension whose
\* path is a key of the path table, else the list under its stem
MatchedList(index, tex_entry) ==
    LET tex_path == as_posix(tex_entry)
        hits == ExtHits(index, tex_path)
    IN  IF hits # {}
        THEN DictGet(index.textures_by_rel,
                     normalize_rel(with_suffix(tex_path, TEXTURE_EXTS[First(hits)])))
        ELSE IF lower(Stem(tex_path)) \in DictKeys(index.textures_by_stem)
        THEN DictGet(index.textures_by_stem, lower(Stem(tex_path)))
        ELSE <<>>

\* when indexing meets a source: the archives in sorted path order, then the
\* on-disk model tree, then the loose texture tree
InsertionRank(f) ==
    IF f.origin = "pk3" THEN CHOOSE i \in DOMAIN PathOrder : PathOrder[i] = f.container
    ELSE IF SubSeq(f.rel_path, 1, 4) = <<"models", SLASH, "players", SLASH>>
    THEN Len(PathOrder) + 1
    ELSE Len(PathOrder) + 2

\* the rule of choice: chosen is, among the candidates, one of the archive of the
\* primary source if there is one, else one on disk if there is one, else the
\* first
FollowsRule(candidates, primary, chosen) ==
    LET same == {i \in DOMAIN candidates :
                    /\ primary.origin = "pk3"
                    /\ candidates[i].origin = "pk3"
                    /\ candidates[i].container = primary.container}
        disk == {i \in DOMAIN candidates : candidates[i].origin = "disk"}
    IN  /\ \E i \in DOMAIN candidates : candidates[i] = chosen
        /\ IF same # {} THEN chosen.origin = "pk3" /\ chosen.container = primary.container
           ELSE IF disk # {} THEN chosen.origin = "disk"
           ELSE chosen = candidates[1]

\* C19: for a reference that matches a table entry, resolve_texture returns the
\* candidate of the archive of the primary source if there is one, else a
\* candidate on disk if there is one, else the first candidate; and the
\* candidates stand in the order of indexing: archives in sorted path order, then
\* the on-disk model tree, then the loose texture tree.
C19_ChoiceRule ==
    (/\ out.op = "resolve_texture"
     /\ out.args[2] # <<>>
     /\ ~out.result.raised
     /\ out.result.found # <<>>) =>
        LET candidates == MatchedList(out.index[1], out.args[1])
        IN  /\ FollowsRule(candidates, out.args[2][1], out.result.found[1])
            /\ \A i, j \in DOMAIN candidates :
                  i < j => InsertionRank(candidates[i]) <= InsertionRank(candidates[j])

\* a texture held by an archive scanned earlier and by the archive of the primary
\* source was resolved to the one of the archive of the primary source
C19_Witness ==
    /\ out.op = "resolve_texture"
    /\ out.args[2] # <<>>
    /\ out.args[2][1].origin = "pk3"
    /\ ~out.result.raised
    /\ out.result.found # <<>>
    /\ out.result.found[1].container = out.args[2][1].container
    /\ MatchedList(out.index[1], out.args[1])[1].container # out.args[2][1].container

\* C20: the skeleton of the asset list is, among the sources of the skeleton path,
\* the one of the archive of the primary source if there is one, else one on disk
\* if there is one, else the first indexed.
C20_SkeletonChoiceRule ==
    (out.op = "collect_assets_for_skin" /\ ~out.result.raised) =>
        \A k \in DOMAIN out.result.assets :
            lower(Suffix(out.result.assets[k][2])) = <<DOT, "gla">> =>
                FollowsRule(DictGet(out.index[1].gla_index, normalize_rel(out.result.assets[k][2])),
                            DictGet(out.index[1].models, out.args[1]).primary,
                            out.result.assets[k][1])

(***************************************************************************)
(* cache.rewrite_skin_paths, index.get_base_dir, the callbacks of props.py *)
(* and the operators of operators.py. props is the property group of the   *)
(* scene: game_path, model_items (the names), active_model_index and       *)
(* skin_name, "" being <<>>. A string of a skin text is a sequence of      *)
(* symbols, and str.replace works on whole symbols.                        *)
(***************************************************************************)
\* text.replace(orig, new), for a non-empty orig
RECURSIVE Replace(_, _, _)
Replace(text, orig, new) ==
    IF Len(text) < Len(orig) THEN text
    ELSE IF SubSeq(text, 1, Len(orig)) = orig
    THEN new \o Replace(SubSeq(text, Len(orig) + 1, Len(text)), orig, new)
    ELSE <<Head(text)>> \o Replace(Tail(text), orig, new)

\* the loop over replacements.items()
RECURSIVE ReplaceAll(_, _)
ReplaceAll(text, items) ==
    IF items = <<>> THEN text
    ELSE Only({ReplaceAll(next, Tail(items)) :
                  next \in {Replace(text, Head(items)[1], Head(items)[2])}})

\* rewrite_skin_paths: the file system it leaves; reading a directory raises,
\* which it swallows
rewrite_skin_paths(f, cache_root, skin_rel, replacements) ==
    LET skin_path == PathJoin(cache_root, skin_rel)
    IN  IF replacements = <<>> THEN f
        ELSE IF skin_path \notin f.files THEN f
        ELSE WriteFile(f, skin_path, ReplaceAll(TextOf(f, skin_path), replacements))

\* the name of the cache folder below the scan root
CACHE_FOLDER == <<"cache">>

get_base_dir(path_str) ==
    IF path_str = <<>> THEN <<DOT>>
    ELSE IF PathJoin(as_posix(path_str), <<"base">>) \in fs.dirs
    THEN PathJoin(as_posix(path_str), <<"base">>)
    ELSE as_posix(path_str)

get_selected_model_from_props(props) ==
    IF props.active_model_index < 0 \/ props.active_model_index >= Len(props.model_items)
    THEN None
    ELSE props.model_items[props.active_model_index + 1]

clear_skin(props) == [props EXCEPT !.skin_name = <<>>]

\* entry["skins"][0].as_posix() of the model, "" without an entry or a skin
FirstSkin(index, model_name) ==
    IF model_name \in DictKeys(index.models) /\ DictGet(index.models, model_name).skins # <<>>
    THEN as_posix(DictGet(index.models, model_name).skins[1])
    ELSE <<>>

\* sorted(names)
RECURSIVE SortedStrings(_)
SortedStrings(names) ==
    IF names = {} THEN <<>>
    ELSE LET first == CHOOSE x \in names : \A y \in names : ~StrLess(y, x)
         IN  <<first>> \o SortedStrings(names \ {first})

\* ensure_skin_selected(props): the index cache and the props it leaves
ensure_skin_selected(cache, props, order) ==
    Only({IF e.raised THEN [raised |-> TRUE, cache |-> e.cache, props |-> props]
          ELSE [raised |-> FALSE,
                cache |-> e.cache,
                props |->
                    IF e.ret = <<>> \/ model_name = None THEN clear_skin(props)
                    ELSE IF FirstSkin(e.ret[1], model_name) = <<>> THEN clear_skin(props)
                    ELSE IF \A i \in DOMAIN DictGet(e.ret[1].models, model_name).skins :
                               as_posix(DictGet(e.ret[1].models, model_name).skins[i])
                                   # props.skin_name
                    THEN [props EXCEPT !.skin_name = FirstSkin(e.ret[1], model_name)]
                    ELSE props] :
          e \in {ensure_index(cache, get_base_dir(props.game_path), order)},
          model_name \in {get_selected_model_from_props(props)}})

\* refresh_model_list(context), with an empty search text
refresh_model_list(cache, props, order) ==
    Only({IF e.raised THEN [raised |-> TRUE, cache |-> e.cache, props |-> props]
          ELSE Only({[raised |-> FALSE,
                      cache |-> e.cache,
                      props |-> [props EXCEPT
                                    !.model_items = items,
                                    !.active_model_index =
                                        IF items = <<>> THEN -1
                                        ELSE IF @ < 0 \/ @ >= Len(items) THEN 0 ELSE @,
                                    !.skin_name =
                                        IF items = <<>> THEN <<>>
                                        ELSE FirstSkin(e.ret[1],
                                                 items[(IF props.active_model_index < 0
                                                           \/ props.active_model_index >= Len(items)
                                                        THEN 0 ELSE props.active_model_index) + 1])]] :
                     items \in {IF e.ret = <<>> THEN <<>>
                                ELSE SortedStrings(DictKeys(e.ret[1].models))}}) :
          e \in {ensure_index(cache, get_base_dir(props.game_path), order)}})

\* on_model_index_changed(self, context): every exception is swallowed
on_model_index_changed(cache, props, order) ==
    Only({[cache |-> e.cache,
           props |-> IF e.raised \/ e.ret = <<>> THEN props
                     ELSE IF model_name = None THEN clear_skin(props)
                     ELSE [props EXCEPT !.skin_name = FirstSkin(e.ret[1], model_name)]] :
          e \in {ensure_index(cache, get_base_dir(props.game_path), order)},
          model_name \in {get_selected_model_from_props(props)}})

\* what a run of an operator leaves: the index cache, the props, the file
\* system, the result, the reports, whether extract_assets and
\* rewrite_skin_paths were called, the lists of missing references and of failed
\* copies, and the model and the skin of the request
Run(cache, props, f, result, reports, extracted, rewrote, missing, failed, model_name, skin_rel) ==
    [cache |-> cache, props |-> props, f |-> f, result |-> result, reports |-> reports,
     extracted |-> extracted, rewrote |-> rewrote, missing |-> missing, failed |-> failed,
     model_name |-> model_name, skin_rel |-> skin_rel]

\* self.report({level}, text), detail being the count or the paths of the text
Report(level, text, detail) == [level |-> level, text |-> text, detail |-> detail]

\* the run from extract_assets on
Materialise(kind, cache, props, base_dir, model_name, collected, import_ok) ==
    Only({IF x.raised
          THEN Run(cache, props, x.f, "raised", <<>>, TRUE, FALSE, collected.missing, x.failed,
                   model_name, props.skin_name)
          ELSE Only({IF kind = "import_model" /\ ~import_ok
                     THEN Run(cache, props, w, "CANCELLED",
                              <<Report("ERROR", "Import failed", <<>>)>>,
                              TRUE, TRUE, collected.missing, x.failed, model_name, props.skin_name)
                     ELSE Run(cache, props, w, "FINISHED",
                              (IF collected.missing # <<>>
                               THEN <<Report("WARNING", "Missing textures",
                                             <<Len(collected.missing)>>)>>
                               ELSE <<>>)
                                  \o (IF x.failed # <<>>
                                      THEN <<Report("WARNING", "Failed to extract", x.failed)>>
                                      ELSE <<>>),
                              TRUE, TRUE, collected.missing, x.failed, model_name, props.skin_name) :
                     w \in {rewrite_skin_paths(x.f, PathJoin(base_dir, CACHE_FOLDER),
                                                props.skin_name, collected.replacements)}}) :
          x \in {extract_assets(fs, base_dir, PathJoin(base_dir, CACHE_FOLDER), collected.assets)}})

\* the run from ensure_skin_selected on
ResolveAndMaterialise(kind, cache, props, base_dir, index, model_name, import_ok, backwards) ==
    IF props.skin_name = <<>>
    THEN Run(cache, props, fs, "CANCELLED",
             <<Report("ERROR", IF kind = "import_model" THEN "Select a skin file before import"
                               ELSE "Select a skin file", <<>>)>>,
             FALSE, FALSE, <<>>, <<>>, model_name, <<>>)
    ELSE Only({IF collected.raised
               THEN Run(cache, props, fs, "CANCELLED", <<Report("ERROR", collected.error, <<>>)>>,
                        FALSE, FALSE, <<>>, <<>>, model_name, props.skin_name)
               ELSE Materialise(kind, cache, props, base_dir, model_name, collected, import_ok) :
               collected \in {collect_assets_for_skin(index, base_dir, model_name,
                                                      props.skin_name, backwards)}})

\* PK3_OT_import_model.execute and PK3_OT_apply_skin.execute; import_ok tells
\* whether the import routine of the host succeeds
execute(kind, cache, props, import_ok, order, backwards) ==
    IF get_base_dir(props.game_path) \notin fs.dirs
    THEN Run(cache, props, fs, "CANCELLED", <<Report("ERROR", "Game path is invalid", <<>>)>>,
             FALSE, FALSE, <<>>, <<>>, None, <<>>)
    ELSE Only({IF e.raised
               THEN Run(e.cache, props, fs, "raised", <<>>, FALSE, FALSE, <<>>, <<>>, None, <<>>)
               ELSE IF e.ret = <<>>
               THEN Run(e.cache, props, fs, "CANCELLED",
                        <<Report("ERROR", IF kind = "import_model" THEN "No models found"
                                          ELSE "Select a model first", <<>>)>>,
                        FALSE, FALSE, <<>>, <<>>, None, <<>>)
               ELSE IF model_name = None
               THEN Run(e.cache, props, fs, "CANCELLED",
                        <<Report("ERROR", "Select a model first", <<>>)>>,
                        FALSE, FALSE, <<>>, <<>>, None, <<>>)
               ELSE Only({IF s.raised
                          THEN Run(s.cache, s.props, fs, "raised", <<>>, FALSE, FALSE, <<>>, <<>>,
                                   model_name, <<>>)
                          ELSE ResolveAndMaterialise(kind, s.cache, s.props, base_dir, e.ret[1],
                                                     model_name, import_ok, backwards) :
                          s \in {ensure_skin_selected(e.cache, props, order)}}) :
               base_dir \in {get_base_dir(props.game_path)},
               e \in {ensure_index(cache, get_base_dir(props.game_path), order)},
               model_name \in {get_selected_model_from_props(props)}})

(***************************************************************************)
(* The operators over time: the scan root holds the archive a.pk3 with one *)
(* of the contents of OperatorArchiveMenu (the archive of the example, one *)
(* with a second skin and a reference to a texture that is nowhere, one    *)
(* that cannot be read), which changes between the calls, and a cache      *)
(* folder that is missing or blocked by a file named models; the scene     *)
(* starts with one of the property groups of PropsMenu. The user refreshes *)
(* the list, selects a model or a skin and runs the operators; a           *)
(* resolution request may also be made directly with any model name and    *)
(* skin path.                                                              *)
(***************************************************************************)
OperatorArchiveMenu ==
    {RebornArchive,
     [ok |-> TRUE,
      names |-> RebornArchive.names
                   \o << <<"models", SLASH, "players", SLASH, "reborn", SLASH,
                           "model_red", DOT, "skin">> >>,
      text |-> <<"head", COMMA, "textures", SLASH, "y">>],
     BadArchive}

\* the files and the empty directories of the cache folder before the first run,
\* relative to it
OperatorCacheMenu ==
    {[files |-> {}, dirs |-> {}],
     [files |-> {<<"models">>}, dirs |-> {}]}

\* the property group saved with the scene: nothing listed yet, or a list of an
\* earlier session
PropsMenu ==
    {[game_path |-> BaseDir, model_items |-> <<>>, active_model_index |-> -1, skin_name |-> <<>>],
     [game_path |-> BaseDir, model_items |-> << <<"kyle">>, <<"reborn">> >>,
      active_model_index |-> 0, skin_name |-> <<>>],
     [game_path |-> MissingDir, model_items |-> <<>>, active_model_index |-> -1,
      skin_name |-> <<>>]}

\* no operator has run yet
NoRun == Run(<<>>, <<>>, <<>>, "none", <<>>, FALSE, FALSE, <<>>, <<>>, None, <<>>)

InitOperator ==
    /\ os_name = "posix"
    /\ inp = [base_dir |-> BaseDir]
    /\ pc = "start"
    /\ \E archive \in OperatorArchiveMenu : tree = [c \in {APk3} |-> archive]
    /\ \E cached \in OperatorCacheMenu :
          LET files == {APk3} \cup {PathJoin(CacheRoot, p) : p \in cached.files}
          IN  fs = [files |-> files,
                    dirs |-> MkdirAll({BaseDir}, {Parent(p) : p \in files}
                                                   \cup {PathJoin(CacheRoot, d) : d \in cached.dirs}),
                    text |-> <<>>]
    /\ \E props \in PropsMenu :
          out = [index |-> <<>>, op |-> "none", args |-> <<>>, result |-> <<>>,
                 props |-> props, run |-> NoRun]

\* what is left to observe after an operation that is no operator run and no
\* resolution request
Observe(index, props, op) ==
    [index |-> index, op |-> op, args |-> <<>>, result |-> <<>>, props |-> props, run |-> NoRun]

\* the orders that can reach a scan result: the archives found are sorted, so
\* only the listings below the models folder and the order of the sets show
OperatorOrders ==
    {o \in Orders : \A d \in o.dirs : IsWithin(d, PathJoin(BaseDir, <<"models">>))}

\* PK3_OT_refresh_models.execute
RefreshModels ==
    /\ \E order \in OperatorOrders : \E r \in {refresh_model_list(clear_index, out.props, order)} :
          /\ out' = Observe(r.cache, r.props, "refresh_models")
          /\ pc' = IF r.cache # <<>> THEN "indexed" ELSE "start"
    /\ UNCHANGED <<os_name, inp, fs, tree>>

\* the user sets active_model_index, which calls update_model_index
SetModelIndex ==
    /\ \E i \in (-1)..(Len(out.props.model_items) - 1), order \in OperatorOrders :
          \E r \in {on_model_index_changed(out.index,
                                           [out.props EXCEPT !.active_model_index = i], order)} :
             /\ i # out.props.active_model_index
             /\ out' = Observe(r.cache, r.props, "set_model_index")
             /\ pc' = IF r.cache # <<>> THEN "indexed" ELSE "start"
    /\ UNCHANGED <<os_name, inp, fs, tree>>

\* the user sets skin_name to one of the items skin_enum_items offers
SetSkin ==
    /\ \E order \in OperatorOrders :
          \E e \in {ensure_index(out.index, get_base_dir(out.props.game_path), order)},
             model_name \in {get_selected_model_from_props(out.props)} :
             /\ ~e.raised
             /\ e.ret # <<>>
             /\ model_name \in DictKeys(e.ret[1].models)
             /\ \E i \in DOMAIN DictGet(e.ret[1].models, model_name).skins :
                   /\ as_posix(DictGet(e.ret[1].models, model_name).skins[i]) # out.props.skin_name
                   /\ out' = Observe(e.cache,
                                     [out.props EXCEPT
                                         !.skin_name =
                                             as_posix(DictGet(e.ret[1].models, model_name).skins[i])],
                                     "set_skin")
             /\ pc' = "indexed"
    /\ UNCHANGED <<os_name, inp, fs, tree>>

\* what a run r of the operator kind leaves to observe
AfterRun(kind, r) ==
    [index |-> r.cache, op |-> kind, args |-> <<>>, result |-> <<>>, props |-> r.props,
     run |-> [r EXCEPT !.cache = <<>>, !.props = <<>>, !.f = <<>>]]

\* a run of PK3_OT_import_model.execute or of PK3_OT_apply_skin.execute, which
\* imports nothing
OperatorRun ==
    /\ \E kind \in {"import_model", "apply_skin"}, import_ok \in BOOLEAN,
          order \in OperatorOrders, backwards \in BOOLEAN :
          /\ kind = "apply_skin" => import_ok
          /\ \E r \in {execute(kind, out.index, out.props, import_ok, order, backwards)} :
                /\ fs' = r.f
                /\ out' = AfterRun(kind, r)
                /\ pc' = IF r.cache # <<>> THEN "indexed" ELSE "start"
    /\ UNCHANGED <<os_name, inp, tree>>

\* the archive changes on disk
ChangeArchive ==
    /\ \E archive \in OperatorArchiveMenu :
          /\ archive # tree[APk3]
          /\ tree' = [tree EXCEPT ![APk3] = archive]
    /\ UNCHANGED <<os_name, pc, inp, out, fs>>

\* a resolution request made directly on the cached index
ResolveRequest ==
    /\ out.index # <<>>
    /\ \E model_name \in ModelNameMenu, skin_rel \in SkinRelMenu, backwards \in BOOLEAN :
          \E r \in {collect_assets_for_skin(out.index[1], out.index[1].base, model_name, skin_rel,
                                            backwards)} :
             out' = [out EXCEPT !.op = "collect_assets_for_skin",
                                !.args = <<model_name, skin_rel>>, !.result = r, !.run = NoRun]
    /\ UNCHANGED <<os_name, pc, inp, fs, tree>>

NextOperator ==
    \/ RefreshModels
    \/ SetModelIndex
    \/ SetSkin
    \/ OperatorRun
    \/ ChangeArchive
    \/ ResolveRequest

SpecOperator == InitOperator /\ [][NextOperator]_vars

OperatorKinds == {"import_model", "apply_skin"}

\* the model name is not in the index, or the skin path matches, by normalized
\* path, no skin of any source of the model
NotResolvable(index, model_name, skin_rel) ==
    \/ model_name \notin DictKeys(index.models)
    \/ \A i \in DOMAIN DictGet(index.models, model_name).sources :
          \A skin \in DictGet(index.models, model_name).sources[i].skins :
             normalize_rel(skin) # normalize_rel(skin_rel)

\* C14: when the model name is not in the index, or the skin path matches no
\* skin of any source of the model, the request fails with no partial result:
\* collect_assets_for_skin raises "Model not found" or "Skin file not found"
\* and changes nothing, and a run of the import-model or apply-skin operator
\* whose selection is such a model or skin ends CANCELLED without calling
\* extract_assets or rewrite_skin_paths, the file system left as it was and
\* the cached index being what ensure_index made of it at the start of the run
C14_FailedRequestChangesNothing ==
    [][/\ (/\ out'.op = "collect_assets_for_skin"
           /\ NotResolvable(out.index[1], out'.args[1], out'.args[2]))
          => /\ out'.result.raised
             /\ out'.result.error \in {"Model not found", "Skin file not found"}
             /\ fs' = fs
             /\ out'.index = out.index
       /\ (/\ out'.op \in OperatorKinds
           /\ tree' = tree
           /\ out'.index # <<>>
           /\ NotResolvable(out'.index[1], out'.run.model_name, out'.run.skin_rel))
          => /\ out'.run.result = "CANCELLED"
             /\ ~out'.run.extracted
             /\ ~out'.run.rewrote
             /\ fs' = fs
             /\ \E order \in OperatorOrders :
                   out'.index = ensure_index(out.index, get_base_dir(out.props.game_path),
                                             order).cache]_vars

\* C14 witness: an operator ran with a model selected that the index does not
\* hold, and was cancelled
C14_Witness ==
    /\ out.op \in OperatorKinds
    /\ out.index # <<>>
    /\ out.run.model_name # None
    /\ out.run.model_name \notin DictKeys(out.index[1].models)
    /\ out.run.result = "CANCELLED"

\* C15: every run of the import-model or apply-skin operator that called
\* extract_assets and returned FINISHED or CANCELLED reported the number of
\* missing references when there are any, and the failed copies when there are
\* any
C15_AccumulationsReported ==
    (/\ out.op \in OperatorKinds
     /\ out.run.extracted
     /\ out.run.result \in {"FINISHED", "CANCELLED"})
        => /\ out.run.missing # <<>>
              => \E i \in DOMAIN out.run.reports :
                    /\ out.run.reports[i].text = "Missing textures"
                    /\ out.run.reports[i].detail = <<Len(out.run.missing)>>
           /\ out.run.failed # <<>>
              => \E i \in DOMAIN out.run.reports :
                    /\ out.run.reports[i].text = "Failed to extract"
                    /\ out.run.reports[i].detail = out.run.failed

(***************************************************************************)
(* One run of an operator step by step: the resolution, extract_assets,    *)
(* rewrite_skin_paths and, for the import, the import routine of the host, *)
(* in a file system that other programs use too: between two steps the     *)
(* archive a.pk3 may become unreadable or readable again. The archive      *)
(* holds the model reborn, its skin with one of the texts of RunTextMenu   *)
(* and the texture model_default.jpg; up to MaxRuns runs follow each       *)
(* other on the same cache folder.                                         *)
(***************************************************************************)
MaxRuns == 2

RunTextMenu ==
    {<<"head", COMMA, "model_default">>,
     <<"head", COMMA, "model_default", NL, "torso", COMMA, "model_default", DOT, "tga">>,
     <<"head", COMMA>> \o RebornTexture,
     <<"head", COMMA, "textures", SLASH, "y">>,
     <<"model_default", COMMA, "model_default">>,
     <<"head", COMMA, "model_default", DOT, "tga", NL, "torso", COMMA, "textures", SLASH, "y">>}

InitRun ==
    /\ os_name = "posix"
    /\ inp = [base_dir |-> BaseDir]
    /\ pc = "idle"
    /\ \E text \in RunTextMenu :
          tree = [c \in {APk3} |->
                     [ok |-> TRUE, names |-> ModelMembers \o <<RebornTexture>>, text |-> text]]
    /\ fs = [files |-> {APk3}, dirs |-> MkdirAll({BaseDir}, {}), text |-> <<>>]
    /\ out = [index |-> <<>>,
              props |-> [game_path |-> BaseDir, model_items |-> << <<"reborn">> >>,
                         active_model_index |-> 0, skin_name |-> RebornSkin],
              kind |-> "none", runs |-> 0, steps |-> <<>>, collected |-> <<>>,
              skin_text |-> <<>>, failed |-> <<>>, result |-> "none"]

\* the run ends before extract_assets
EndEarly(kind, cache, props, result) ==
    [out EXCEPT !.index = cache, !.props = props, !.kind = kind, !.runs = @ + 1,
                !.steps = <<>>, !.collected = <<>>, !.skin_text = <<>>, !.failed = <<>>,
                !.result = result]

\* execute up to collect_assets_for_skin
Begin ==
    /\ pc = "idle"
    /\ out.runs < MaxRuns
    /\ \E kind \in {"import_model", "apply_skin"}, order \in OperatorOrders, backwards \in BOOLEAN :
          \E e \in {ensure_index(out.index, get_base_dir(out.props.game_path), order)},
             model_name \in {get_selected_model_from_props(out.props)} :
             IF e.raised
             THEN out' = EndEarly(kind, e.cache, out.props, "raised") /\ pc' = "idle"
             ELSE IF e.ret = <<>> \/ model_name = None
             THEN out' = EndEarly(kind, e.cache, out.props, "CANCELLED") /\ pc' = "idle"
             ELSE \E s \in {ensure_skin_selected(e.cache, out.props, order)} :
                     IF s.raised
                     THEN out' = EndEarly(kind, s.cache, s.props, "raised") /\ pc' = "idle"
                     ELSE IF s.props.skin_name = <<>>
                     THEN out' = EndEarly(kind, s.cache, s.props, "CANCELLED") /\ pc' = "idle"
                     ELSE \E c \in {collect_assets_for_skin(e.ret[1],
                                        get_base_dir(out.props.game_path), model_name,
                                        s.props.skin_name, backwards)} :
                             IF c.raised
                             THEN /\ out' = EndEarly(kind, s.cache, s.props, "CANCELLED")
                                  /\ pc' = "idle"
                             ELSE /\ out' = [EndEarly(kind, s.cache, s.props, "none") EXCEPT
                                                !.collected = <<c>>,
                                                !.skin_text = tree[APk3].text]
                                  /\ pc' = "collected"
    /\ UNCHANGED <<os_name, inp, fs, tree>>

\* texture_map, failed = extract_assets(base_dir, cache_root, assets)
Copy ==
    /\ pc = "collected"
    /\ \E x \in {extract_assets(fs, get_base_dir(out.props.game_path),
                                PathJoin(get_base_dir(out.props.game_path), CACHE_FOLDER),
                                out.collected[1].assets)} :
          /\ fs' = x.f
          /\ out' = [out EXCEPT !.steps = Append(@, "extract_assets"), !.failed = x.failed,
                                !.result = IF x.raised THEN "raised" ELSE @]
          /\ pc' = IF x.raised THEN "idle" ELSE "copied"
    /\ UNCHANGED <<os_name, inp, tree>>

\* rewrite_skin_paths(cache_root, skin_rel, replacements)
Rewrite ==
    /\ pc = "copied"
    /\ fs' = rewrite_skin_paths(fs, PathJoin(get_base_dir(out.props.game_path), CACHE_FOLDER),
                                out.props.skin_name, out.collected[1].replacements)
    /\ out' = [out EXCEPT !.steps = Append(@, "rewrite_skin_paths")]
    /\ pc' = "rewritten"
    /\ UNCHANGED <<os_name, inp, tree>>

\* bpy.ops.import_scene.glm of PK3_OT_import_model, which may raise
Import ==
    /\ pc = "rewritten"
    /\ out.kind = "import_model"
    /\ \E import_ok \in BOOLEAN :
          out' = [out EXCEPT !.steps = Append(@, "import_scene.glm"),
                             !.result = IF import_ok THEN "FINISHED" ELSE "CANCELLED"]
    /\ pc' = "idle"
    /\ UNCHANGED <<os_name, inp, fs, tree>>

\* PK3_OT_apply_skin returns after the rewrite
Finish ==
    /\ pc = "rewritten"
    /\ out.kind = "apply_skin"
    /\ out' = [out EXCEPT !.result = "FINISHED"]
    /\ pc' = "idle"
    /\ UNCHANGED <<os_name, inp, fs, tree>>

\* another program makes the archive unreadable, or readable again
Damage ==
    /\ tree' = [tree EXCEPT ![APk3].ok = ~@]
    /\ UNCHANGED <<os_name, pc, inp, out, fs>>

NextRun == Begin \/ Copy \/ Rewrite \/ Import \/ Finish \/ Damage

SpecRun == InitRun /\ [][NextRun]_vars

\* the cached copy of the skin of the run
CachedSkin == PathJoin(PathJoin(get_base_dir(out.props.game_path), CACHE_FOLDER), out.props.skin_name)

\* the copy step of the run wrote the skin
SkinCopied == \A i \in DOMAIN out.failed : out.failed[i] # out.props.skin_name

\* C21: in every run the steps come in the order extract_assets,
\* rewrite_skin_paths, import routine; and whenever rewrite_skin_paths changes
\* the cached skin file, the copy step of the same run wrote that file
C21_RewritesOwnCopy ==
    [][/\ \E n \in 0..3 :
             out'.steps = SubSeq(<<"extract_assets", "rewrite_skin_paths", "import_scene.glm">>, 1, n)
       /\ (/\ pc = "copied"
           /\ pc' = "rewritten"
           /\ TextOf(fs', CachedSkin) # TextOf(fs, CachedSkin))
          => SkinCopied]_vars

\* the binding map the rewritten skin should give: each part of the original
\* map bound to the resolved path of its reference when the reference was
\* renamed, and to the reference otherwise
RECURSIVE Renamed(_, _)
Renamed(mapping, replacements) ==
    IF mapping = <<>> THEN <<>>
    ELSE << <<Head(mapping)[1],
              IF Head(mapping)[2] \in DictKeys(replacements)
              THEN DictGet(replacements, Head(mapping)[2])
              ELSE Head(mapping)[2]>> >>
             \o Renamed(Tail(mapping), replacements)

\* C22: once the skin was copied and rewrite_skin_paths applied, parsing the
\* cached skin gives the part names of the original binding map, each bound to
\* the resolved path of its reference when collect_assets_for_skin renamed it
\* and to the unchanged reference otherwise
C22_RewriteKeepsBindings ==
    (pc = "rewritten" /\ SkinCopied)
        => parse_skin_text(TextOf(fs, CachedSkin))
               = Renamed(parse_skin_text(out.skin_text), out.collected[1].replacements)
====
